---- MODULE Spec2Model ----
(***************************************************************************)
(* FloodWatch: the REST API of server/routes.ts (src/unnamed/part_001)     *)
(* over the storage layer of src/server/storage.ts and the tables and      *)
(* insert schemas of shared/schema.ts (src/unnamed/part_000).              *)
(*                                                                         *)
(* A row is a function from column names to values; a column holding SQL   *)
(* NULL is outside the row's DOMAIN.  A JSON body is [vals, nulls]: vals   *)
(* holds the keys given with a value, nulls the keys given as null; a key  *)
(* in neither is absent from the body.                                     *)
(***************************************************************************)
EXTENDS Integers, Sequences, FiniteSets, TLC

\* ---------------------------------------------------------------- bounds
\* requests served in a behaviour of the whole API
MaxRequests == 2
\* requests served in a behaviour of the routes of one table
MaxTableRequests == 3
\* ticks of the server clock
MaxClock == 1
\* the last time of the server clock while alerts are listed
MaxAlertClock == 2
\* navigations of the client in a behaviour of its router
MaxNavigations == 2

\* ---------------------------------------------------------------- state
VARIABLES
  routes,     \* the routes registered on the Express app
  db,         \* the PostgreSQL tables: table name -> sequence of rows
  nextId,     \* the next value gen_random_uuid() returns
  now,        \* the server clock (new Date(), defaultNow())
  request,    \* the latest request
  response,   \* the response sent for it
  trace,      \* what the server did for it, in order
  served,     \* the number of requests served
  weather,    \* whether OPENWEATHER_API_KEY was set for the latest request,
              \* and what the weather service answers to it
  inflight,   \* the requests being handled at once: for each, the await its
              \* handler has reached and what it holds
  client      \* the browser: what useAuth reports, the location, the
              \* locations visited before and what the router renders

vars ==
  <<routes, db, nextId, now, request, response, trace, served, weather,
    inflight, client>>

\* the users table, filled by the identity provider's login callback
Users == {"u1", "u2"}

\* users.role: varchar, default "field_worker"
Roles == {"district_officer", "ngo", "field_worker"}

roleOf(u) == IF u = "u1" THEN "district_officer" ELSE "field_worker"

Tables ==
  {"flood_zones", "affected_population", "resources", "relief_distribution",
   "weather_alerts", "response_teams", "activity_log"}

\* ------------------------------------------------------------- helpers
Restrict(f, S) == [k \in S |-> f[k]]

Body(vals, nulls) == [vals |-> vals, nulls |-> nulls]

EmptyVals == [k \in {} |-> 0]

Ids(rows) == {rows[i].id : i \in 1..Len(rows)}

RECURSIVE SumCol(_, _)
\* SQL SUM over the non-NULL values of a column (0 when there is none)
SumCol(rows, col) ==
  IF rows = <<>> THEN 0
  ELSE (IF col \in DOMAIN Head(rows) THEN Head(rows)[col] ELSE 0)
       + SumCol(Tail(rows), col)

\* rows with a non-NULL value in the column
NonNull(rows, col) == {i \in 1..Len(rows) : col \in DOMAIN rows[i]}

Abs(n) == IF n < 0 THEN -n ELSE n

\* one entry of the trace of a request: a call the server made, and whether
\* it returned (ok) or threw
Op(op, table, status, ok) ==
  [op |-> op, table |-> table, status |-> status, ok |-> ok]
Select(t, ok) == Op("select", t, 0, ok)
Insert(t, ok) == Op("insert", t, 0, ok)
Update(t, ok) == Op("update", t, 0, ok)
Fetch(ok)     == Op("fetch", "", 0, ok)
Parse(ok)     == Op("parse", "", 0, ok)
Send(s)       == Op("send", "", s, TRUE)

\* what a handler produces: the database after it, the ids it used, the
\* response and the trace
Outcome(d, n, status, body, tr) ==
  [db |-> d, nextId |-> n, status |-> status, body |-> body, trace |-> tr]

Message(m) == [message |-> m]

\* ---------------------------------------------------------------- schema
\* the columns of each table (pgTable)
Columns(t) ==
  CASE t = "flood_zones" ->
         {"id", "name", "district", "latitude", "longitude", "riskLevel",
          "radius", "waterLevel", "dangerMark", "isActive", "lastUpdated",
          "createdAt"}
    [] t = "affected_population" ->
         {"id", "name", "age", "gender", "phoneNumber", "address", "latitude",
          "longitude", "floodZoneId", "evacuationStatus", "medicalNeeds",
          "familyMembers", "registeredBy", "createdAt", "updatedAt"}
    [] t = "resources" ->
         {"id", "name", "type", "unit", "totalQuantity", "allocatedQuantity",
          "distributedQuantity", "priority", "location", "expiryDate",
          "createdAt", "updatedAt"}
    [] t = "relief_distribution" ->
         {"id", "resourceId", "floodZoneId", "quantity", "distributedTo",
          "distributedBy", "distributionDate", "recipientCount", "notes",
          "status", "createdAt"}
    [] t = "weather_alerts" ->
         {"id", "type", "severity", "title", "message", "affectedArea",
          "validUntil", "isActive", "createdBy", "createdAt"}
    [] t = "response_teams" ->
         {"id", "name", "type", "status", "currentLocation", "assignedZone",
          "memberCount", "contactNumber", "leadOfficer", "createdAt",
          "updatedAt"}
    [] t = "activity_log" ->
         {"id", "type", "description", "entityType", "entityId",
          "performedBy", "location", "metadata", "createdAt"}

\* NotNull with the type of a resource left nullable
NotNullTypeOptional(t) ==
  CASE t = "flood_zones" ->
         {"id", "name", "district", "latitude", "longitude", "riskLevel",
          "radius"}
    [] t = "affected_population" -> {"id", "name", "evacuationStatus"}
    [] t = "resources" -> {"id", "name", "unit", "totalQuantity", "priority"}
    [] t = "relief_distribution" -> {"id", "resourceId", "quantity"}
    [] t = "weather_alerts" -> {"id", "type", "severity", "title", "message"}
    [] t = "response_teams" -> {"id", "name", "type", "status"}
    [] t = "activity_log" -> {"id", "type", "description"}

\* the columns declared .notNull() (and the primary key)
NotNull(t) ==
  CASE t = "flood_zones" ->
         {"id", "name", "district", "latitude", "longitude", "riskLevel",
          "radius"}
    [] t = "affected_population" -> {"id", "name", "evacuationStatus"}
    [] t = "resources" ->
         {"id", "name", "type", "unit", "totalQuantity", "priority"}
    [] t = "relief_distribution" -> {"id", "resourceId", "quantity"}
    [] t = "weather_alerts" -> {"id", "type", "severity", "title", "message"}
    [] t = "response_teams" -> {"id", "name", "type", "status"}
    [] t = "activity_log" -> {"id", "type", "description"}

\* the columns declared timestamp(): drizzle-zod types them z.date()
Timestamps(t) ==
  Columns(t) \cap {"lastUpdated", "createdAt", "updatedAt", "expiryDate",
                   "distributionDate", "validUntil"}

\* the .default(...) / .defaultNow() of each table, at time clock
Defaults(t, clock) ==
  CASE t = "flood_zones" ->
         [isActive |-> TRUE, lastUpdated |-> clock, createdAt |-> clock]
    [] t = "affected_population" ->
         [familyMembers |-> 1, createdAt |-> clock, updatedAt |-> clock]
    [] t = "resources" ->
         [allocatedQuantity |-> 0, distributedQuantity |-> 0,
          createdAt |-> clock, updatedAt |-> clock]
    [] t = "relief_distribution" ->
         [distributionDate |-> clock, status |-> "completed",
          createdAt |-> clock]
    [] t = "weather_alerts" -> [isActive |-> TRUE, createdAt |-> clock]
    [] t = "response_teams" ->
         [memberCount |-> 0, createdAt |-> clock, updatedAt |-> clock]
    [] t = "activity_log" -> [createdAt |-> clock]

\* the .references(...) of each table: column -> referenced table
References(t) ==
  CASE t = "affected_population" ->
         [floodZoneId |-> "flood_zones", registeredBy |-> "users"]
    [] t = "relief_distribution" ->
         [resourceId |-> "resources", floodZoneId |-> "flood_zones",
          distributedBy |-> "users"]
    [] t = "weather_alerts" -> [createdBy |-> "users"]
    [] t = "response_teams" ->
         [assignedZone |-> "flood_zones", leadOfficer |-> "users"]
    [] t = "activity_log" -> [performedBy |-> "users"]
    [] OTHER -> EmptyVals

\* createInsertSchema(table).omit(omitted): the keys the schema keeps
InsertSchema(t, omitted) == [table |-> t, keys |-> Columns(t) \ omitted]

insertFloodZoneSchema ==
  InsertSchema("flood_zones", {"id", "lastUpdated", "createdAt"})
insertAffectedPopulationSchema ==
  InsertSchema("affected_population", {"id", "createdAt", "updatedAt"})
insertResourceSchema ==
  InsertSchema("resources", {"id", "createdAt", "updatedAt"})
insertReliefDistributionSchema ==
  InsertSchema("relief_distribution", {"id", "distributionDate", "createdAt"})
insertWeatherAlertSchema == InsertSchema("weather_alerts", {"id", "createdAt"})
insertResponseTeamSchema ==
  InsertSchema("response_teams", {"id", "createdAt", "updatedAt"})

\* a key of the schema is required when its column is NOT NULL and has no
\* default
Required(schema) ==
  (schema.keys \cap NotNull(schema.table))
    \ DOMAIN Defaults(schema.table, 0)

\* schema.parse(body) returns: every required key has a value, and no
\* timestamp key has one (a JSON value is never a Date)
ParseOk(schema, body) ==
  /\ Required(schema) \subseteq DOMAIN body.vals
  /\ DOMAIN body.vals \cap Timestamps(schema.table) \cap schema.keys = {}

\* what schema.parse(body) returns: the keys of the schema, the others
\* stripped
Parsed(schema, body) ==
  Body(Restrict(body.vals, DOMAIN body.vals \cap schema.keys),
       body.nulls \cap schema.keys)

\* { ...body, key: value }
With(body, key, value) ==
  Body((key :> value) @@ body.vals, body.nulls \ {key})

\* ------------------------------------------------------------- database
\* the rows a foreign key may name
Referenced(d, target) == IF target = "users" THEN Users ELSE Ids(d[target])

\* Referencing for a key that nothing refers to
ReferencingNothing(d, target, id) == FALSE

\* some row of some table refers to the row of table target with this id
Referencing(d, target, id) ==
  \E t \in Tables : \E c \in DOMAIN References(t) :
    /\ References(t)[c] = target
    /\ \E i \in 1..Len(d[t]) : c \in DOMAIN d[t][i] /\ d[t][i][c] = id

\* the NOT NULL and FOREIGN KEY constraints of table t hold for row
ConstraintsOk(d, t, row) ==
  /\ NotNull(t) \subseteq DOMAIN row
  /\ \A c \in DOMAIN References(t) \cap DOMAIN row :
        row[c] \in Referenced(d, References(t)[c])

\* db.insert(t).values(values).returning(): the row gets the id and the
\* defaults of the columns the values leave out; ok is false when the
\* database rejects the statement, which then changes nothing
insertRow(d, t, values, id, clock) ==
  LET full == ("id" :> id) @@ values.vals @@ Defaults(t, clock)
      row  == Restrict(full, DOMAIN full \ values.nulls)
      ok   == ConstraintsOk(d, t, row)
  IN  [ok |-> ok,
       db |-> IF ok THEN [d EXCEPT ![t] = Append(@, row)] ELSE d,
       rows |-> IF ok THEN <<row>> ELSE <<>>,
       nextId |-> IF ok THEN id + 1 ELSE id]

\* the row after SET set
setRow(row, set) ==
  Restrict(set.vals @@ row, (DOMAIN row \cup DOMAIN set.vals) \ set.nulls)

\* db.update(t).set(set).where(eq(t.id, id)).returning(): the rows it
\* changed; ok is false when the statement throws (a value that is no Date
\* for a timestamp column, a constraint the new row breaks)
updateRow(d, t, id, set) ==
  LET cols == Body(Restrict(set.vals, DOMAIN set.vals \cap Columns(t)),
                   set.nulls \cap Columns(t))
      hit  == {i \in 1..Len(d[t]) : d[t][i].id = id}
      new  == [i \in 1..Len(d[t]) |->
                 IF i \in hit THEN setRow(d[t][i], cols) ELSE d[t][i]]
      ok   == /\ \A c \in DOMAIN cols.vals \cap Timestamps(t) :
                   cols.vals[c] \in Nat
              /\ \A i \in hit : ConstraintsOk(d, t, new[i])
              /\ \A i \in hit : new[i].id # d[t][i].id =>
                   ~Referencing(d, t, d[t][i].id)
              /\ \A i \in hit : \A j \in 1..Len(new) :
                   new[i].id = new[j].id => i = j
  IN  [ok |-> ok,
       db |-> IF ok THEN [d EXCEPT ![t] = new] ELSE d,
       rows |-> IF ok THEN [k \in 1..Cardinality(hit) |->
                             new[CHOOSE i \in hit :
                                   Cardinality({j \in hit : j < i}) = k - 1]]
                ELSE <<>>,
       nextId |-> 0]

\* the orders ORDER BY col DESC may return rows in (NULLs first; rows with
\* equal keys in any order)
OrderedDesc(rows, col) ==
  LET n == Len(rows)
      Before(a, b) ==
        \/ col \notin DOMAIN a
        \/ col \in DOMAIN a /\ col \in DOMAIN b /\ a[col] >= b[col]
  IN  {[i \in 1..n |-> rows[p[i]]] :
         p \in {q \in [1..n -> 1..n] :
                  /\ \A i, j \in 1..n : q[i] = q[j] => i = j
                  /\ \A i \in 1..n : i < n => Before(rows[q[i]], rows[q[i + 1]])}}

\* -------------------------------------------------------------- storage
\* DatabaseStorage.  A create or update returns [ok, db, rows, nextId]; a
\* list returns the set of row orders the query may produce.
getUser(id) ==
  IF id \in Users THEN <<[id |-> id, role |-> roleOf(id)]>> ELSE <<>>

\* getFloodZones with orderBy(desc(floodZones.createdAt))
getFloodZonesByCreation(d) == OrderedDesc(d["flood_zones"], "createdAt")

getFloodZones(d) == OrderedDesc(d["flood_zones"], "lastUpdated")

createFloodZone(d, zone, id, clock) ==
  insertRow(d, "flood_zones", zone, id, clock)

updateFloodZone(d, id, zone, clock) ==
  updateRow(d, "flood_zones", id, With(zone, "lastUpdated", clock))

getAffectedPopulation(d, floodZoneId) ==
  IF floodZoneId # 0
  THEN OrderedDesc(
         SelectSeq(d["affected_population"],
                   LAMBDA r : "floodZoneId" \in DOMAIN r
                              /\ r.floodZoneId = floodZoneId),
         "createdAt")
  ELSE OrderedDesc(d["affected_population"], "createdAt")

createAffectedPerson(d, person, id, clock) ==
  insertRow(d, "affected_population", person, id, clock)

updateAffectedPerson(d, id, updates, clock) ==
  updateRow(d, "affected_population", id, With(updates, "updatedAt", clock))

getResources(d) == OrderedDesc(d["resources"], "updatedAt")

createResource(d, resource, id, clock) ==
  insertRow(d, "resources", resource, id, clock)

updateResource(d, id, updates, clock) ==
  updateRow(d, "resources", id, With(updates, "updatedAt", clock))

getReliefDistributions(d, floodZoneId) ==
  IF floodZoneId # 0
  THEN OrderedDesc(
         SelectSeq(d["relief_distribution"],
                   LAMBDA r : "floodZoneId" \in DOMAIN r
                              /\ r.floodZoneId = floodZoneId),
         "distributionDate")
  ELSE OrderedDesc(d["relief_distribution"], "distributionDate")

\* addDistributed without the WHERE: every resource is updated
addDistributedEverywhere(d, resourceId, q, clock) ==
  LET rs == d["resources"]
      bump(r) ==
        [updatedAt |-> clock] @@
        (IF "distributedQuantity" \in DOMAIN r
         THEN [r EXCEPT !.distributedQuantity = r.distributedQuantity + q]
         ELSE r)
  IN  [d EXCEPT !["resources"] = [i \in 1..Len(rs) |-> bump(rs[i])]]

\* addDistributed writing the quantity instead of adding it
addDistributedAssign(d, resourceId, q, clock) ==
  LET rs == d["resources"]
  IN  [d EXCEPT !["resources"] =
         [i \in 1..Len(rs) |->
            IF rs[i].id = resourceId
            THEN [updatedAt |-> clock, distributedQuantity |-> q] @@ rs[i]
            ELSE rs[i]]]

\* UPDATE resources SET distributed_quantity = distributed_quantity + q,
\* updated_at = clock WHERE id = resourceId   (NULL + q is NULL)
addDistributed(d, resourceId, q, clock) ==
  LET rs == d["resources"]
      bump(r) ==
        [updatedAt |-> clock] @@
        (IF "distributedQuantity" \in DOMAIN r
         THEN [r EXCEPT !.distributedQuantity = r.distributedQuantity + q]
         ELSE r)
  IN  [d EXCEPT !["resources"] =
         [i \in 1..Len(rs) |->
            IF rs[i].id = resourceId THEN bump(rs[i]) ELSE rs[i]]]

\* the INSERT, then the UPDATE of the resource; updateThrows: the second
\* statement fails, after the first was committed
createReliefDistribution(d, distribution, id, clock, updateThrows) ==
  LET ins == insertRow(d, "relief_distribution", distribution, id, clock)
  IN  IF ~ins.ok THEN ins @@ [inserted |-> FALSE]
      ELSE IF updateThrows THEN [ins EXCEPT !.ok = FALSE] @@ [inserted |-> TRUE]
      ELSE [ins EXCEPT !.db = addDistributed(ins.db, ins.rows[1].resourceId,
                                             ins.rows[1].quantity, clock)]
           @@ [inserted |-> TRUE]

\* getActiveWeatherAlerts without eq(weatherAlerts.isActive, true)
getActiveWeatherAlertsUnexpired(d, clock) ==
  OrderedDesc(
    SelectSeq(d["weather_alerts"],
              LAMBDA r : "validUntil" \in DOMAIN r /\ r.validUntil >= clock),
    "createdAt")

\* WHERE is_active = true AND valid_until >= now (a NULL valid_until fails
\* the comparison)
getActiveWeatherAlerts(d, clock) ==
  OrderedDesc(
    SelectSeq(d["weather_alerts"],
              LAMBDA r : /\ "isActive" \in DOMAIN r /\ r.isActive = TRUE
                         /\ "validUntil" \in DOMAIN r
                         /\ r.validUntil >= clock),
    "createdAt")

createWeatherAlert(d, alert, id, clock) ==
  insertRow(d, "weather_alerts", alert, id, clock)

\* deactivateWeatherAlert as a DELETE FROM weather_alerts
deactivateWeatherAlertRemove(d, id) ==
  [ok |-> TRUE,
   db |-> [d EXCEPT !["weather_alerts"] = SelectSeq(@, LAMBDA r : r.id # id)],
   rows |-> <<>>,
   nextId |-> 0]

deactivateWeatherAlert(d, id) ==
  updateRow(d, "weather_alerts", id, Body([isActive |-> FALSE], {}))

getResponseTeams(d) == OrderedDesc(d["response_teams"], "updatedAt")

createResponseTeam(d, team, id, clock) ==
  insertRow(d, "response_teams", team, id, clock)

updateResponseTeam(d, id, updates, clock) ==
  updateRow(d, "response_teams", id, With(updates, "updatedAt", clock))

\* ORDER BY created_at DESC LIMIT limit
getRecentActivities(d, limit) ==
  {SubSeq(s, 1, IF limit < Len(s) THEN limit ELSE Len(s)) :
     s \in OrderedDesc(d["activity_log"], "createdAt")}

logActivity(d, activity, id, clock) ==
  insertRow(d, "activity_log", Body(activity, {}), id, clock)

\* ROUND(n / q, 0) of PostgreSQL numerics: to the nearest integer, a tie
\* away from zero
Round(n, q) ==
  LET m == (2 * Abs(n) + Abs(q)) \div (2 * Abs(q))
  IN  IF (n < 0) # (q < 0) THEN 0 - m ELSE m

\* CASE WHEN SUM(total) = 0 THEN 0
\*      ELSE ROUND(SUM(distributed) * 100.0 / SUM(total), 0) END
\* as a sequence: <<>> is SQL NULL (SUM over no value is NULL, and a
\* comparison or an arithmetic with NULL is NULL)
reliefPercentage(rows) ==
  LET total == SumCol(rows, "totalQuantity")
      distributed == SumCol(rows, "distributedQuantity")
  IN  IF NonNull(rows, "totalQuantity") = {} THEN <<>>
      ELSE IF total = 0 THEN <<0>>
      ELSE IF NonNull(rows, "distributedQuantity") = {} THEN <<>>
      ELSE <<Round(distributed * 100, total)>>

\* getDashboardStats counting every zone, active or not
getDashboardStatsEveryZone(d) ==
  [activeZones |-> Len(d["flood_zones"]),
   affectedPeople |-> Len(d["affected_population"]),
   reliefDistributed |-> reliefPercentage(d["resources"]),
   responseTeams |-> Len(d["response_teams"])]

\* getDashboardStats adding up the family members of the affected people
getDashboardStatsFamilyMembers(d) ==
  [activeZones |->
     Len(SelectSeq(d["flood_zones"],
                   LAMBDA r : "isActive" \in DOMAIN r /\ r.isActive = TRUE)),
   affectedPeople |-> SumCol(d["affected_population"], "familyMembers"),
   reliefDistributed |-> reliefPercentage(d["resources"]),
   responseTeams |-> Len(d["response_teams"])]

\* getDashboardStats counting the teams that are active
getDashboardStatsActiveTeams(d) ==
  [activeZones |->
     Len(SelectSeq(d["flood_zones"],
                   LAMBDA r : "isActive" \in DOMAIN r /\ r.isActive = TRUE)),
   affectedPeople |-> Len(d["affected_population"]),
   reliefDistributed |-> reliefPercentage(d["resources"]),
   responseTeams |->
     Len(SelectSeq(d["response_teams"], LAMBDA r : r.status = "active"))]

getDashboardStats(d) ==
  [activeZones |->
     Len(SelectSeq(d["flood_zones"],
                   LAMBDA r : "isActive" \in DOMAIN r /\ r.isActive = TRUE)),
   affectedPeople |-> Len(d["affected_population"]),
   reliefDistributed |-> reliefPercentage(d["resources"]),
   responseTeams |-> Len(d["response_teams"])]

\* ------------------------------------------------------------- requests
\* id: the :id parameter or the floodZoneId query (0: none); query: the
\* limit query ("": none); user: the claims.sub of the session
Req(method, path, authed, user, id, query, body) ==
  [method |-> method, path |-> path, authed |-> authed,
   user |-> IF authed THEN user ELSE "", id |-> id, query |-> query,
   body |-> body]

NoBody == Body(EmptyVals, {})

\* the middleware of ./replitAuth: lets a request with a valid session
\* through and answers any other with 401
isAuthenticated(req) == req.authed

\* Route with the dashboard statistics registered without the middleware
RouteStatsOpen(method, path) ==
  [method |-> method, path |-> path,
   middleware |-> IF path = "/api/dashboard/stats" THEN {}
                  ELSE {"isAuthenticated"}]

\* Route with the update of a response team registered as a PUT
RouteTeamPut(method, path) ==
  [method |-> IF method = "PATCH" /\ path = "/api/response-teams/:id"
              THEN "PUT" ELSE method,
   path |-> path, middleware |-> {"isAuthenticated"}]

Route(method, path) ==
  [method |-> method, path |-> path, middleware |-> {"isAuthenticated"}]

\* the routes registerRoutes registers, each behind isAuthenticated
registerRoutes ==
  {Route("GET", "/api/auth/user"),
   Route("GET", "/api/dashboard/stats"),
   Route("GET", "/api/flood-zones"),
   Route("POST", "/api/flood-zones"),
   Route("PATCH", "/api/flood-zones/:id"),
   Route("GET", "/api/population"),
   Route("POST", "/api/population"),
   Route("PATCH", "/api/population/:id"),
   Route("GET", "/api/resources"),
   Route("POST", "/api/resources"),
   Route("PATCH", "/api/resources/:id"),
   Route("GET", "/api/relief-distribution"),
   Route("POST", "/api/relief-distribution"),
   Route("GET", "/api/weather-alerts"),
   Route("POST", "/api/weather-alerts"),
   Route("DELETE", "/api/weather-alerts/:id"),
   Route("GET", "/api/response-teams"),
   Route("POST", "/api/response-teams"),
   Route("PATCH", "/api/response-teams/:id"),
   Route("GET", "/api/activities"),
   Route("GET", "/api/weather/:location")}

\* catch (error) { res.status(500).json({ message }) }
Fail500(d, n, msg, tr) ==
  Outcome(d, n, 500, Message(msg), Append(tr, Send(500)))

\* LogAndSend with res.json(body) placed before the await of logActivity
LogAndSendRespondFirst(d, n, activity, body, fail, msg, tr) ==
  LET log == logActivity(d, activity, n, now)
  IN  IF fail = "log" \/ ~log.ok
      THEN Fail500(d, n, msg,
                   tr \o <<Send(200), Insert("activity_log", FALSE)>>)
      ELSE Outcome(log.db, log.nextId, 200, body,
                   tr \o <<Send(200), Insert("activity_log", TRUE)>>)

\* the tail of every mutating handler: await storage.logActivity(activity);
\* res.json(body)
LogAndSend(d, n, activity, body, fail, msg, tr) ==
  LET log == logActivity(d, activity, n, now)
  IN  IF fail = "log" \/ ~log.ok
      THEN Fail500(d, n, msg, Append(tr, Insert("activity_log", FALSE)))
      ELSE Outcome(log.db, log.nextId, 200, body,
                   tr \o <<Insert("activity_log", TRUE), Send(200)>>)

\* a GET handler: one storage read, then res.json(result)
ReadAndSend(table, result, fail, msg) ==
  IF fail = "storage"
  THEN Fail500(db, nextId, msg, <<Select(table, FALSE)>>)
  ELSE Outcome(db, nextId, 200, result, <<Select(table, TRUE), Send(200)>>)

\* a POST handler: schema.parse(body), storage.create..., logActivity,
\* res.json(row).  created is the result of the storage call on the parsed
\* body.
CreateAndLog(schema, body, created, activity, fail, msg) ==
  LET t == schema.table
  IN  IF ~ParseOk(schema, body)
      THEN Fail500(db, nextId, msg, <<Parse(FALSE)>>)
      ELSE IF fail = "storage" \/ ~created.ok
      THEN Fail500(db, nextId, msg, <<Parse(TRUE), Insert(t, FALSE)>>)
      ELSE LogAndSend(created.db, created.nextId, activity, created.rows[1],
                      fail, msg, <<Parse(TRUE), Insert(t, TRUE)>>)

\* UpdateAndLog without the test of the row returned: reading a column of
\* undefined throws
UpdateAndLogUnchecked(t, updated, activity, fail, msg, notFound) ==
  IF fail = "storage" \/ ~updated.ok
  THEN Fail500(db, nextId, msg, <<Update(t, FALSE)>>)
  ELSE IF updated.rows = <<>>
  THEN Fail500(db, nextId, msg, <<Update(t, TRUE)>>)
  ELSE LogAndSend(updated.db, nextId, activity, updated.rows[1], fail, msg,
                  <<Update(t, TRUE)>>)

\* a PATCH handler: storage.update...(id, req.body), 404 when no row came
\* back, logActivity, res.json(row)
UpdateAndLog(t, updated, activity, fail, msg, notFound) ==
  IF fail = "storage" \/ ~updated.ok
  THEN Fail500(db, nextId, msg, <<Update(t, FALSE)>>)
  ELSE IF updated.rows = <<>>
  THEN Outcome(db, nextId, 404, Message(notFound),
               <<Update(t, TRUE), Send(404)>>)
  ELSE LogAndSend(updated.db, nextId, activity, updated.rows[1], fail, msg,
                  <<Update(t, TRUE)>>)

\* value || fallback, for a nullable text column of a row
OrElse(row, col, fallback) ==
  IF col \in DOMAIN row THEN row[col] ELSE fallback

\* the body of an OpenWeatherMap answer with status 200
WeatherJson(temp, humidity) ==
  [main |-> [temp |-> temp, feels_like |-> temp + 2, humidity |-> humidity,
             pressure |-> 1000 + humidity],
   weather |-> <<[id |-> 500, description |-> "light rain"]>>,
   wind |-> [speed |-> 4, deg |-> 200],
   name |-> "Alappuzha"]

\* the body of an OpenWeatherMap answer that is no weather report
ErrorJson == [cod |-> "404", message |-> "city not found"]

\* kind: the fetch resolves ("answer") or rejects ("network error")
Upstream(kind, status, json) == [kind |-> kind, status |-> status, json |-> json]

NoWeather == [apiKey |-> FALSE, upstream |-> Upstream("none", 0, ErrorJson)]

\* the middleware of the route answers the request itself: the only
\* middleware a route is registered with is isAuthenticated
Denied(r, req) == "isAuthenticated" \in r.middleware /\ ~isAuthenticated(req)

\* the request reaches the handler of the route registered for it, through
\* the route's middleware
ServeIn(req, outcome, w) ==
  \E r \in routes :
    /\ r.method = req.method
    /\ r.path = req.path
    /\ LET o == IF Denied(r, req)
                THEN Outcome(db, nextId, 401, Message("Unauthorized"),
                             <<Send(401)>>)
                ELSE outcome
       IN  /\ db' = o.db
           /\ nextId' = o.nextId
           /\ response' = [status |-> o.status, body |-> o.body]
           /\ trace' = o.trace
    /\ request' = req
    /\ served' = served + 1
    /\ weather' = w
    /\ UNCHANGED <<client, routes, now, inflight>>

\* a request whose handler does not call the weather service
Serve(req, outcome) == ServeIn(req, outcome, NoWeather)

\* ------------------------------------------------------------- handlers
\* Each handler is the body of the async function registered for the
\* route; fail says which awaited call, if any, is rejected by the database.
GetAuthUserHandler(req, fail) ==
  ReadAndSend("users", getUser(req.user), fail, "Failed to fetch user")

GetDashboardStatsHandler(req, fail) ==
  ReadAndSend("*", getDashboardStats(db), fail,
              "Failed to fetch dashboard statistics")

GetFloodZonesHandler(req, zones, fail) ==
  ReadAndSend("flood_zones", zones, fail, "Failed to fetch flood zones")

PostFloodZonesHandler(req, fail) ==
  LET zone == createFloodZone(db, Parsed(insertFloodZoneSchema, req.body),
                              nextId, now)
      activity ==
        IF zone.ok
        THEN [type |-> "zone_creation",
              description |-> <<"Created flood zone: ", zone.rows[1].name>>,
              entityType |-> "flood_zone",
              entityId |-> zone.rows[1].id,
              performedBy |-> req.user,
              location |-> zone.rows[1].district]
        ELSE EmptyVals
  IN  CreateAndLog(insertFloodZoneSchema, req.body, zone, activity, fail,
                   "Failed to create flood zone")

PatchFloodZonesHandler(req, fail) ==
  LET zone == updateFloodZone(db, req.id, req.body, now)
      activity ==
        IF zone.ok /\ zone.rows # <<>>
        THEN [type |-> "zone_update",
              description |-> <<"Updated flood zone: ", zone.rows[1].name>>,
              entityType |-> "flood_zone",
              entityId |-> zone.rows[1].id,
              performedBy |-> req.user,
              location |-> zone.rows[1].district,
              metadata |-> req.body]
        ELSE EmptyVals
  IN  UpdateAndLog("flood_zones", zone, activity, fail,
                   "Failed to update flood zone", "Flood zone not found")

GetPopulationHandler(req, population, fail) ==
  ReadAndSend("affected_population", population, fail,
              "Failed to fetch affected population")

PostPopulationHandler(req, fail) ==
  LET body == With(req.body, "registeredBy", req.user)
      person == createAffectedPerson(
                  db, Parsed(insertAffectedPopulationSchema, body), nextId, now)
      activity ==
        IF person.ok
        THEN [type |-> "population_registration",
              description |->
                <<"Registered affected person: ", person.rows[1].name>>,
              entityType |-> "population",
              entityId |-> person.rows[1].id,
              performedBy |-> req.user,
              location |-> OrElse(person.rows[1], "address", "Unknown")]
        ELSE EmptyVals
  IN  CreateAndLog(insertAffectedPopulationSchema, body, person, activity,
                   fail, "Failed to register affected person")

PatchPopulationHandler(req, fail) ==
  LET person == updateAffectedPerson(db, req.id, req.body, now)
      activity ==
        IF person.ok /\ person.rows # <<>>
        THEN [type |-> "population_update",
              description |->
                <<"Updated affected person: ", person.rows[1].name>>,
              entityType |-> "population",
              entityId |-> person.rows[1].id,
              performedBy |-> req.user,
              metadata |-> req.body]
        ELSE EmptyVals
  IN  UpdateAndLog("affected_population", person, activity, fail,
                   "Failed to update affected person", "Person not found")

GetResourcesHandler(req, resources, fail) ==
  ReadAndSend("resources", resources, fail, "Failed to fetch resources")

PostResourcesHandler(req, fail) ==
  LET resource == createResource(db, Parsed(insertResourceSchema, req.body),
                                 nextId, now)
      activity ==
        IF resource.ok
        THEN [type |-> "resource_creation",
              description |->
                <<"Added resource: ", resource.rows[1].name,
                  resource.rows[1].totalQuantity, resource.rows[1].unit>>,
              entityType |-> "resource",
              entityId |-> resource.rows[1].id,
              performedBy |-> req.user,
              location |-> OrElse(resource.rows[1], "location",
                                  "Central Store")]
        ELSE EmptyVals
  IN  CreateAndLog(insertResourceSchema, req.body, resource, activity, fail,
                   "Failed to create resource")

PatchResourcesHandler(req, fail) ==
  LET resource == updateResource(db, req.id, req.body, now)
      activity ==
        IF resource.ok /\ resource.rows # <<>>
        THEN [type |-> "resource_update",
              description |-> <<"Updated resource: ", resource.rows[1].name>>,
              entityType |-> "resource",
              entityId |-> resource.rows[1].id,
              performedBy |-> req.user,
              metadata |-> req.body]
        ELSE EmptyVals
  IN  UpdateAndLog("resources", resource, activity, fail,
                   "Failed to update resource", "Resource not found")

GetReliefDistributionHandler(req, distributions, fail) ==
  ReadAndSend("relief_distribution", distributions, fail,
              "Failed to fetch relief distributions")

PostReliefDistributionHandler(req, fail) ==
  LET msg  == "Failed to create relief distribution"
      body == With(req.body, "distributedBy", req.user)
      distribution ==
        createReliefDistribution(
          db, Parsed(insertReliefDistributionSchema, body), nextId, now,
          fail = "update")
      activity ==
        IF distribution.ok
        THEN [type |-> "relief_distribution",
              description |->
                <<"Distributed relief: ", distribution.rows[1].quantity,
                  OrElse(distribution.rows[1], "distributedTo", "undefined")>>,
              entityType |-> "distribution",
              entityId |-> distribution.rows[1].id,
              performedBy |-> req.user,
              location |->
                OrElse(distribution.rows[1], "distributedTo", "Unknown")]
        ELSE EmptyVals
  IN  IF ~ParseOk(insertReliefDistributionSchema, body)
      THEN Fail500(db, nextId, msg, <<Parse(FALSE)>>)
      ELSE IF fail = "storage" \/ ~distribution.inserted
      THEN Fail500(db, nextId, msg,
                   <<Parse(TRUE), Insert("relief_distribution", FALSE)>>)
      ELSE IF ~distribution.ok
      THEN Fail500(distribution.db, distribution.nextId, msg,
                   <<Parse(TRUE), Insert("relief_distribution", TRUE),
                     Update("resources", FALSE)>>)
      ELSE LogAndSend(distribution.db, distribution.nextId, activity,
                      distribution.rows[1], fail, msg,
                      <<Parse(TRUE), Insert("relief_distribution", TRUE),
                        Update("resources", TRUE)>>)

GetWeatherAlertsHandler(req, alerts, fail) ==
  ReadAndSend("weather_alerts", alerts, fail, "Failed to fetch weather alerts")

PostWeatherAlertsHandler(req, fail) ==
  LET body  == With(req.body, "createdBy", req.user)
      alert == createWeatherAlert(db, Parsed(insertWeatherAlertSchema, body),
                                  nextId, now)
      activity ==
        IF alert.ok
        THEN [type |-> "alert_creation",
              description |->
                <<"Created alert: ", alert.rows[1].severity,
                  alert.rows[1].title>>,
              entityType |-> "alert",
              entityId |-> alert.rows[1].id,
              performedBy |-> req.user,
              location |-> OrElse(alert.rows[1], "affectedArea", "Unknown")]
        ELSE EmptyVals
  IN  CreateAndLog(insertWeatherAlertSchema, body, alert, activity, fail,
                   "Failed to create weather alert")

DeleteWeatherAlertsHandler(req, fail) ==
  LET msg == "Failed to deactivate weather alert"
      off == deactivateWeatherAlert(db, req.id)
      activity ==
        [type |-> "alert_deactivation",
         description |-> <<"Deactivated weather alert">>,
         entityType |-> "alert",
         entityId |-> req.id,
         performedBy |-> req.user]
  IN  IF fail = "storage" \/ ~off.ok
      THEN Fail500(db, nextId, msg, <<Update("weather_alerts", FALSE)>>)
      ELSE LogAndSend(off.db, nextId, activity, [success |-> TRUE], fail, msg,
                      <<Update("weather_alerts", TRUE)>>)

GetResponseTeamsHandler(req, teams, fail) ==
  ReadAndSend("response_teams", teams, fail, "Failed to fetch response teams")

PostResponseTeamsHandler(req, fail) ==
  LET body == With(req.body, "leadOfficer", req.user)
      team == createResponseTeam(db, Parsed(insertResponseTeamSchema, body),
                                 nextId, now)
      activity ==
        IF team.ok
        THEN [type |-> "team_creation",
              description |-> <<"Created response team: ", team.rows[1].name>>,
              entityType |-> "team",
              entityId |-> team.rows[1].id,
              performedBy |-> req.user,
              location |-> OrElse(team.rows[1], "currentLocation", "Base")]
        ELSE EmptyVals
  IN  CreateAndLog(insertResponseTeamSchema, body, team, activity, fail,
                   "Failed to create response team")

PatchResponseTeamsHandler(req, fail) ==
  LET team == updateResponseTeam(db, req.id, req.body, now)
      activity ==
        IF team.ok /\ team.rows # <<>>
        THEN [type |-> "team_update",
              description |-> <<"Updated response team: ", team.rows[1].name>>,
              entityType |-> "team",
              entityId |-> team.rows[1].id,
              performedBy |-> req.user,
              metadata |-> req.body]
        ELSE EmptyVals
  IN  UpdateAndLog("response_teams", team, activity, fail,
                   "Failed to update response team", "Response team not found")

\* parseInt of the query strings the model sends; <<>> is NaN
parseInt(text) ==
  CASE text = "0" -> <<0>>
    [] text = "1" -> <<1>>
    [] text = "2" -> <<2>>
    [] text = "-1" -> <<0 - 1>>
    [] OTHER -> <<>>

\* parseInt(req.query.limit) || 20
activitiesLimit(req) ==
  LET n == parseInt(req.query)
  IN  IF n = <<>> \/ n = <<0>> THEN 20 ELSE n[1]

\* a negative LIMIT is an error of the database
GetActivitiesHandler(req, activities, fail) ==
  IF fail = "storage" \/ activitiesLimit(req) < 0
  THEN Fail500(db, nextId, "Failed to fetch activities",
               <<Select("activity_log", FALSE)>>)
  ELSE Outcome(db, nextId, 200, activities,
               <<Select("activity_log", TRUE), Send(200)>>)

\* GetWeatherHandler answering with the upstream body as it came
GetWeatherHandlerPassThrough(req, apiKey, upstream) ==
  LET msg == "Failed to fetch weather data"
      weatherData == upstream.json
  IN  IF ~apiKey
      THEN Outcome(db, nextId, 500, Message("Weather API key not configured"),
                   <<Send(500)>>)
      ELSE IF upstream.kind = "network error"
      THEN Fail500(db, nextId, msg, <<Fetch(FALSE)>>)
      ELSE IF upstream.status \notin 200..299
      THEN Fail500(db, nextId, msg, <<Fetch(TRUE)>>)
      ELSE Outcome(db, nextId, 200, weatherData,
                   <<Fetch(TRUE), Parse(TRUE), Send(200)>>)

\* apiKey: OPENWEATHER_API_KEY is set; upstream: what the fetch does.
\* weatherResponse.ok is a status of 200..299; reading main.temp of a body
\* without main throws
GetWeatherHandler(req, apiKey, upstream) ==
  LET msg == "Failed to fetch weather data"
      weatherData == upstream.json
  IN  IF ~apiKey
      THEN Outcome(db, nextId, 500, Message("Weather API key not configured"),
                   <<Send(500)>>)
      ELSE IF upstream.kind = "network error"
      THEN Fail500(db, nextId, msg, <<Fetch(FALSE)>>)
      ELSE IF upstream.status \notin 200..299
      THEN Fail500(db, nextId, msg, <<Fetch(TRUE)>>)
      ELSE IF ~({"main", "weather", "wind"} \subseteq DOMAIN weatherData)
      THEN Fail500(db, nextId, msg, <<Fetch(TRUE), Parse(FALSE)>>)
      ELSE Outcome(db, nextId, 200,
                   [temperature |-> weatherData.main.temp,
                    humidity |-> weatherData.main.humidity,
                    description |-> weatherData.weather[1].description,
                    windSpeed |-> weatherData.wind.speed,
                    pressure |-> weatherData.main.pressure],
                   <<Fetch(TRUE), Parse(TRUE), Send(200)>>)

\* --------------------------------------------------------------- client
\* what useAuth may report
useAuth == [isAuthenticated : BOOLEAN, isLoading : BOOLEAN]

\* the locations the sidebar links to; two of them have no route
Locations ==
  {"/", "/flood-mapping", "/resources", "/population", "/distribution",
   "/analytics", "/reports"}

\* <Route path=...>page</Route>; a path of "" is a Route without path
Page(path, elements) == [path |-> path, elements |-> elements]

AuthenticatedLayout(page) == <<"AuthenticatedLayout", page>>

\* the children of Switch with every child rendered whoever is signed in
ChildrenForAnyone(signedIn) ==
  <<Page("/", <<"Landing">>),
    Page("/", AuthenticatedLayout("Dashboard")),
    Page("/flood-mapping", AuthenticatedLayout("FloodMapping")),
    Page("/resources", AuthenticatedLayout("Resources")),
    Page("/population", AuthenticatedLayout("Population")),
    Page("/analytics", AuthenticatedLayout("Analytics")),
    Page("", <<"NotFound">>)>>

\* the children of Switch in Router, the fragment flattened
Children(signedIn) ==
  (IF ~signedIn
   THEN <<Page("/", <<"Landing">>)>>
   ELSE <<Page("/", AuthenticatedLayout("Dashboard")),
          Page("/flood-mapping", AuthenticatedLayout("FloodMapping")),
          Page("/resources", AuthenticatedLayout("Resources")),
          Page("/population", AuthenticatedLayout("Population")),
          Page("/analytics", AuthenticatedLayout("Analytics"))>>)
    \o <<Page("", <<"NotFound">>)>>

\* <Switch>: the first child whose path matches the location is rendered
Switch(children, location) ==
  LET matching == {i \in 1..Len(children) :
                     children[i].path \in {"", location}}
  IN  IF matching = {} THEN <<>>
      ELSE children[CHOOSE i \in matching : \A j \in matching : i <= j]
             .elements

\* function Router(): the components on screen
Router(auth, location) ==
  IF auth.isLoading THEN <<"Spinner">>
  ELSE Switch(Children(auth.isAuthenticated), location)

\* the browser after the app is opened at a location: useAuth is loading
Opened(location) ==
  LET auth == [isAuthenticated |-> FALSE, isLoading |-> TRUE]
  IN  [auth |-> auth, location |-> location, history |-> <<>>,
       screen |-> Router(auth, location)]

\* the user follows a link or types a location; the router renders again
Navigate ==
  /\ Len(client.history) < MaxNavigations
  /\ \E location \in Locations \ {client.location} :
       client' = [client EXCEPT
                    !.location = location,
                    !.history = Append(@, client.location),
                    !.screen = Router(client.auth, location)]
  /\ UNCHANGED <<routes, db, nextId, now, request, response, trace, served,
                 weather, inflight>>

\* useAuth reports something else (the user query settles, the session
\* starts or ends); the router renders again
AuthChanges ==
  /\ \E auth \in useAuth \ {client.auth} :
       client' = [client EXCEPT
                    !.auth = auth,
                    !.screen = Router(auth, client.location)]
  /\ UNCHANGED <<routes, db, nextId, now, request, response, trace, served,
                 weather, inflight>>

\* --------------------------------------------------------------- inputs
\* body without the key
Without(body, key) ==
  Body(Restrict(body.vals, DOMAIN body.vals \ {key}), body.nulls \ {key})

\* { ...body, key: null }
Null(body, key) ==
  Body(Restrict(body.vals, DOMAIN body.vals \ {key}), body.nulls \cup {key})

\* the awaited calls of a mutating handler the database may reject
Faults == {"none", "storage", "log"}

\* the database answers every call
NoFaults == {"none"}

\* an id no row has, and the ids of the rows of a table
IdsOrNone(t) == Ids(db[t]) \cup {0}

\* the user of the requests whose handler does not read req.user
SomeUser == CHOOSE u \in Users : TRUE

\* What a specification sends: the users with a session, the ways the
\* database may fail, and the bodies: "validation" sends each body that
\* breaks the insert schema, "values" the bodies that differ in the values
\* stored, "actors" the bodies that name a user in the column of the actor.
Validation == [users |-> Users, faults |-> NoFaults, bodies |-> "validation"]
Faulty == [users |-> {SomeUser}, faults |-> Faults, bodies |-> "valid"]
Values == [users |-> {SomeUser}, faults |-> NoFaults, bodies |-> "values"]
Actors == [users |-> Users, faults |-> NoFaults, bodies |-> "actors"]
Frame == [users |-> {SomeUser}, faults |-> NoFaults, bodies |-> "frame"]
Keys == [users |-> {SomeUser}, faults |-> NoFaults, bodies |-> "keys"]

\* the session of a request: of one of the users, or none
Sessions(users) ==
  {[authed |-> TRUE, user |-> u] : u \in users}
    \cup {[authed |-> FALSE, user |-> ""]}

\* a request without a session is sent once: its handler never runs, and
\* the inputs it would read are fixed
Given(s, inputs) == IF s.authed THEN inputs ELSE {CHOOSE x \in inputs : TRUE}

\* the POST bodies of a table: the valid body (which gives the required
\* keys and no other), bodies lacking one of its keys, bodies with a value
\* outside the column's enumeration (bad), bodies with other values
\* (others) and with null (nulls) for an optional key
Posts(p, schema, valid, bad, others, nulls) ==
  LET required == DOMAIN valid.vals
  IN  {valid}
        \cup {Without(valid, k) :
               k \in IF p.bodies = "validation" THEN required
                     ELSE {CHOOSE r \in required : TRUE}}
        \cup (IF p.bodies = "valid" THEN {}
              ELSE {With(valid, o[1], o[2]) : o \in bad})
        \cup (IF p.bodies = "values"
              THEN {With(valid, o[1], o[2]) : o \in others}
                     \cup {Null(valid, k) : k \in nulls}
              ELSE {})

\* the PATCH bodies of a table: those changing a value, and with "values"
\* also those setting null
Patches(p, changes, nulls) ==
  {Body(c[1] :> c[2], {}) :
     c \in IF p.bodies = "values" THEN changes
           ELSE {CHOOSE x \in changes : TRUE}}
    \cup (IF p.bodies = "values" THEN {Body(EmptyVals, {k}) : k \in nulls}
          ELSE {})

\* POST bodies that name a user in the column of the actor
Claimed(p, valid, actor) ==
  IF p.bodies = "actors" THEN {With(valid, actor, u) : u \in Users} ELSE {}

\* PATCH bodies that set the column of the actor
Reassigned(p, actor) ==
  IF p.bodies = "actors" THEN {Body(actor :> u, {}) : u \in Users} ELSE {}

\* PATCH bodies that name the id: that of a stored row, or 9, the id of none
Rekeyed(p, t) ==
  IF p.bodies \in {"frame", "keys"}
  THEN {Body("id" :> i, {}) : i \in Ids(db[t]) \cup {9}}
  ELSE {}

\* PATCH bodies that name the columns the server owns: the id, the update
\* stamp and createdAt. A timestamp in a JSON body is a string or a number,
\* never a Date: it is written -1, which is no time of the clock
Owned(p, t, stamp) ==
  Rekeyed(p, t)
    \cup (IF p.bodies = "frame"
          THEN {Body(stamp :> -1, {}), Body("createdAt" :> -1, {})}
          ELSE {})

\* bodies that refer to a row of table target, or to none, in column
Referring(p, valid, column, target) ==
  IF p.bodies = "keys"
  THEN {With(valid, column, i) : i \in IdsOrNone(target)}
  ELSE {}

ValidZone ==
  Body([name |-> "Kuttanad", district |-> "Alappuzha", latitude |-> "9.35",
        longitude |-> "76.40", riskLevel |-> "high", radius |-> 500], {})

ZonePosts(p) ==
  Posts(p, insertFloodZoneSchema, ValidZone, {<<"riskLevel", "extreme">>},
        {<<"isActive", FALSE>>}, {"isActive"})

ZonePatches(p) ==
  Patches(p, {<<"isActive", FALSE>>, <<"isActive", TRUE>>,
              <<"riskLevel", "extreme">>}, {"isActive", "name"})
    \cup Owned(p, "flood_zones", "lastUpdated")

ValidPerson == Body([name |-> "Anu", evacuationStatus |-> "at_risk"], {})

PersonPosts(p) ==
  Posts(p, insertAffectedPopulationSchema, ValidPerson,
        {<<"evacuationStatus", "lost">>}, {<<"familyMembers", 4>>},
        {"familyMembers"})
    \cup Claimed(p, ValidPerson, "registeredBy")
    \cup Referring(p, ValidPerson, "floodZoneId", "flood_zones")

PersonPatches(p) ==
  Patches(p, {<<"evacuationStatus", "safe">>, <<"evacuationStatus", "lost">>,
              <<"familyMembers", 3>>}, {"name"})
    \cup Reassigned(p, "registeredBy")
    \cup Owned(p, "affected_population", "updatedAt")
    \cup Referring(p, Body(EmptyVals, {}), "floodZoneId", "flood_zones")

ValidResource ==
  Body([name |-> "Rice", type |-> "food", unit |-> "packets",
        totalQuantity |-> 8, priority |-> "high"], {})

ResourcePosts(p) ==
  Posts(p, insertResourceSchema, ValidResource, {<<"priority", "urgent">>},
        {<<"totalQuantity", 1>>, <<"totalQuantity", 0>>,
         <<"distributedQuantity", 1>>},
        {"distributedQuantity"})

ResourcePatches(p) ==
  Patches(p, {<<"distributedQuantity", 1>>, <<"totalQuantity", 3>>,
              <<"priority", "urgent">>}, {"unit"})
    \cup Owned(p, "resources", "updatedAt")

Quantities(p) == IF p.bodies = "values" THEN {1, 2} ELSE {1}

DistributionPosts(p) ==
  {Body([resourceId |-> r, quantity |-> q], {}) :
     r \in IdsOrNone("resources"), q \in Quantities(p)}
    \cup {Body([resourceId |-> r], {}) :
           r \in IF p.bodies = "validation" THEN IdsOrNone("resources")
                 ELSE {}}
    \cup {Body([quantity |-> 1], {})}
    \cup UNION {Claimed(p, Body([resourceId |-> r, quantity |-> 1], {}),
                        "distributedBy") : r \in Ids(db["resources"])}
    \cup UNION {Referring(p, Body([resourceId |-> r, quantity |-> 1], {}),
                          "floodZoneId", "flood_zones") :
                  r \in Ids(db["resources"])}

ValidAlert ==
  Body([type |-> "flood_warning", severity |-> "high", title |-> "Red alert",
        message |-> "Move to higher ground"], {})

AlertPosts(p) ==
  Posts(p, insertWeatherAlertSchema, ValidAlert, {<<"severity", "extreme">>},
        {<<"isActive", FALSE>>, <<"validUntil", 1>>}, {})
    \cup Claimed(p, ValidAlert, "createdBy")

ValidTeam ==
  Body([name |-> "Alpha", type |-> "evacuation", status |-> "active"], {})

TeamPosts(p) ==
  Posts(p, insertResponseTeamSchema, ValidTeam, {<<"status", "asleep">>},
        {<<"status", "standby">>}, {})
    \cup Claimed(p, ValidTeam, "leadOfficer")
    \cup Referring(p, ValidTeam, "assignedZone", "flood_zones")

TeamPatches(p) ==
  Patches(p, {<<"status", "standby">>, <<"status", "unavailable">>,
              <<"status", "asleep">>, <<"memberCount", 5>>}, {"status"})
    \cup Reassigned(p, "leadOfficer")
    \cup Owned(p, "response_teams", "updatedAt")
    \cup Referring(p, Body(EmptyVals, {}), "assignedZone", "flood_zones")

Limits(p) == IF p.bodies = "valid" THEN {"", "-1"} ELSE {"", "abc", "0", "1", "-1"}

\* what the weather service does: a report, another report, a refusal, no
\* answer at all, and a 200 whose body is no weather report
Upstreams ==
  {Upstream("answer", 200, WeatherJson(30, 80)),
   Upstream("answer", 200, WeatherJson(24, 95)),
   Upstream("answer", 404, ErrorJson),
   Upstream("network error", 0, ErrorJson),
   Upstream("answer", 200, ErrorJson)}

\* -------------------------------------------------------------- actions
\* one action per route: a request arrives and is served.  p: what the
\* specification sends.
GetAuthUser(p) ==
  \E s \in Sessions(p.users) : \E fail \in Given(s, p.faults \ {"log"}) :
    LET req == Req("GET", "/api/auth/user", s.authed, s.user, 0, "", NoBody)
    IN  Serve(req, GetAuthUserHandler(req, fail))

GetDashboardStats(p) ==
  \E s \in Sessions({SomeUser}) : \E fail \in Given(s, p.faults \ {"log"}) :
    LET req == Req("GET", "/api/dashboard/stats", s.authed, s.user, 0, "",
                   NoBody)
    IN  Serve(req, GetDashboardStatsHandler(req, fail))

GetFloodZones(p) ==
  \E s \in Sessions({SomeUser}) : \E fail \in Given(s, p.faults \ {"log"}) :
    \E zones \in Given(s, getFloodZones(db)) :
      LET req == Req("GET", "/api/flood-zones", s.authed, s.user, 0, "", NoBody)
      IN  Serve(req, GetFloodZonesHandler(req, zones, fail))

PostFloodZones(p) ==
  \E s \in Sessions(p.users) : \E fail \in Given(s, p.faults) :
    \E body \in Given(s, ZonePosts(p)) :
      LET req == Req("POST", "/api/flood-zones", s.authed, s.user, 0, "", body)
      IN  Serve(req, PostFloodZonesHandler(req, fail))

PatchFloodZones(p) ==
  \E s \in Sessions(p.users) : \E fail \in Given(s, p.faults) :
    \E id \in Given(s, IdsOrNone("flood_zones")), body \in Given(s, ZonePatches(p)) :
      LET req == Req("PATCH", "/api/flood-zones/:id", s.authed, s.user, id, "",
                     body)
      IN  Serve(req, PatchFloodZonesHandler(req, fail))

GetPopulation(p) ==
  \E s \in Sessions({SomeUser}) : \E fail \in Given(s, p.faults \ {"log"}) :
    \E zone \in Given(s, IdsOrNone("flood_zones")) :
      \E population \in Given(s, getAffectedPopulation(db, zone)) :
        LET req == Req("GET", "/api/population", s.authed, s.user, zone, "",
                       NoBody)
        IN  Serve(req, GetPopulationHandler(req, population, fail))

PostPopulation(p) ==
  \E s \in Sessions(p.users) : \E fail \in Given(s, p.faults) :
    \E body \in Given(s, PersonPosts(p)) :
      LET req == Req("POST", "/api/population", s.authed, s.user, 0, "", body)
      IN  Serve(req, PostPopulationHandler(req, fail))

PatchPopulation(p) ==
  \E s \in Sessions(p.users) : \E fail \in Given(s, p.faults) :
    \E id \in Given(s, IdsOrNone("affected_population")),
       body \in Given(s, PersonPatches(p)) :
      LET req == Req("PATCH", "/api/population/:id", s.authed, s.user, id, "",
                     body)
      IN  Serve(req, PatchPopulationHandler(req, fail))

GetResources(p) ==
  \E s \in Sessions({SomeUser}) : \E fail \in Given(s, p.faults \ {"log"}) :
    \E resources \in Given(s, getResources(db)) :
      LET req == Req("GET", "/api/resources", s.authed, s.user, 0, "", NoBody)
      IN  Serve(req, GetResourcesHandler(req, resources, fail))

PostResources(p) ==
  \E s \in Sessions(p.users) : \E fail \in Given(s, p.faults) :
    \E body \in Given(s, ResourcePosts(p)) :
      LET req == Req("POST", "/api/resources", s.authed, s.user, 0, "", body)
      IN  Serve(req, PostResourcesHandler(req, fail))

PatchResources(p) ==
  \E s \in Sessions(p.users) : \E fail \in Given(s, p.faults) :
    \E id \in Given(s, IdsOrNone("resources")),
       body \in Given(s, ResourcePatches(p)) :
      LET req == Req("PATCH", "/api/resources/:id", s.authed, s.user, id, "",
                     body)
      IN  Serve(req, PatchResourcesHandler(req, fail))

GetReliefDistribution(p) ==
  \E s \in Sessions({SomeUser}) : \E fail \in Given(s, p.faults \ {"log"}) :
    \E zone \in Given(s, IdsOrNone("flood_zones")) :
      \E distributions \in Given(s, getReliefDistributions(db, zone)) :
        LET req == Req("GET", "/api/relief-distribution", s.authed, s.user,
                       zone, "", NoBody)
        IN  Serve(req, GetReliefDistributionHandler(req, distributions, fail))

PostReliefDistribution(p) ==
  \E s \in Sessions(p.users) :
    \E fail \in Given(s, IF p.faults = NoFaults THEN NoFaults
                         ELSE p.faults \cup {"update"}) :
      \E body \in Given(s, DistributionPosts(p)) :
        LET req == Req("POST", "/api/relief-distribution", s.authed, s.user, 0,
                       "", body)
        IN  Serve(req, PostReliefDistributionHandler(req, fail))

GetWeatherAlerts(p) ==
  \E s \in Sessions({SomeUser}) : \E fail \in Given(s, p.faults \ {"log"}) :
    \E alerts \in Given(s, getActiveWeatherAlerts(db, now)) :
      LET req == Req("GET", "/api/weather-alerts", s.authed, s.user, 0, "",
                     NoBody)
      IN  Serve(req, GetWeatherAlertsHandler(req, alerts, fail))

PostWeatherAlerts(p) ==
  \E s \in Sessions(p.users) : \E fail \in Given(s, p.faults) :
    \E body \in Given(s, AlertPosts(p)) :
      LET req == Req("POST", "/api/weather-alerts", s.authed, s.user, 0, "",
                     body)
      IN  Serve(req, PostWeatherAlertsHandler(req, fail))

DeleteWeatherAlerts(p) ==
  \E s \in Sessions(p.users) : \E fail \in Given(s, p.faults) :
    \E id \in Given(s, IdsOrNone("weather_alerts")) :
      LET req == Req("DELETE", "/api/weather-alerts/:id", s.authed, s.user, id,
                     "", NoBody)
      IN  Serve(req, DeleteWeatherAlertsHandler(req, fail))

GetResponseTeams(p) ==
  \E s \in Sessions({SomeUser}) : \E fail \in Given(s, p.faults \ {"log"}) :
    \E teams \in Given(s, getResponseTeams(db)) :
      LET req == Req("GET", "/api/response-teams", s.authed, s.user, 0, "",
                     NoBody)
      IN  Serve(req, GetResponseTeamsHandler(req, teams, fail))

PostResponseTeams(p) ==
  \E s \in Sessions(p.users) : \E fail \in Given(s, p.faults) :
    \E body \in Given(s, TeamPosts(p)) :
      LET req == Req("POST", "/api/response-teams", s.authed, s.user, 0, "",
                     body)
      IN  Serve(req, PostResponseTeamsHandler(req, fail))

PatchResponseTeams(p) ==
  \E s \in Sessions(p.users) : \E fail \in Given(s, p.faults) :
    \E id \in Given(s, IdsOrNone("response_teams")),
       body \in Given(s, TeamPatches(p)) :
      LET req == Req("PATCH", "/api/response-teams/:id", s.authed, s.user, id,
                     "", body)
      IN  Serve(req, PatchResponseTeamsHandler(req, fail))

GetActivities(p) ==
  \E s \in Sessions({SomeUser}) : \E fail \in Given(s, p.faults \ {"log"}) :
    \E limit \in Given(s, Limits(p)) :
      LET req == Req("GET", "/api/activities", s.authed, s.user, 0, limit,
                     NoBody)
      IN  \E activities \in
              IF activitiesLimit(req) < 0 THEN {<<>>}
              ELSE Given(s, getRecentActivities(db, activitiesLimit(req))) :
            Serve(req, GetActivitiesHandler(req, activities, fail))

GetWeather(p) ==
  \E s \in Sessions({SomeUser}) :
    \E apiKey \in Given(s, BOOLEAN), upstream \in Given(s, Upstreams) :
      LET req == Req("GET", "/api/weather/:location", s.authed, s.user, 0, "",
                     NoBody)
      IN  ServeIn(req, GetWeatherHandler(req, apiKey, upstream),
                  [apiKey |-> apiKey, upstream |-> upstream])

\* ---------------------------------------------------- requests at once
\* Two POST /api/relief-distribution handled at once: each await of the
\* handler and of createReliefDistribution is a step, and the steps of the
\* two requests interleave.
Slots == {1, 2}

Idle == [pc |-> "idle", req |-> Req("", "", FALSE, "", 0, "", NoBody),
         rows |-> <<>>, trace |-> <<>>]

NoneInFlight == [k \in Slots |-> Idle]

\* the handler moves on to its next await
Proceed(k, pc, rows, op) ==
  inflight' = [inflight EXCEPT ![k] =
                 [pc |-> pc, req |-> inflight[k].req, rows |-> rows,
                  trace |-> Append(inflight[k].trace, op)]]

\* the request arrives and insertReliefDistributionSchema.parse returns
ReceiveDistribution(k) ==
  /\ inflight[k].pc = "idle"
  /\ \E r \in Ids(db["resources"]), q \in Quantities(Values) :
       LET req == Req("POST", "/api/relief-distribution", TRUE, SomeUser, 0,
                      "", Body([resourceId |-> r, quantity |-> q], {}))
       IN  /\ ParseOk(insertReliefDistributionSchema,
                      With(req.body, "distributedBy", req.user))
           /\ inflight' = [inflight EXCEPT ![k] =
                             [pc |-> "insert", req |-> req, rows |-> <<>>,
                              trace |-> <<Parse(TRUE)>>]]
  /\ UNCHANGED <<client, routes, db, nextId, now, request, response, trace,
                 served, weather>>

\* await db.insert(reliefDistribution).values(distribution).returning()
InsertDistribution(k) ==
  /\ inflight[k].pc = "insert"
  /\ LET req == inflight[k].req
         ins == insertRow(db, "relief_distribution",
                          Parsed(insertReliefDistributionSchema,
                                 With(req.body, "distributedBy", req.user)),
                          nextId, now)
     IN  /\ ins.ok
         /\ db' = ins.db
         /\ nextId' = ins.nextId
         /\ Proceed(k, "update", ins.rows, Insert("relief_distribution", TRUE))
  /\ UNCHANGED <<client, routes, now, request, response, trace, served,
                 weather>>

\* await db.update(resources).set({distributedQuantity: sql`... + q`})
UpdateResourceQuantity(k) ==
  /\ inflight[k].pc = "update"
  /\ LET distribution == inflight[k].rows[1]
     IN  db' = addDistributed(db, distribution.resourceId,
                              distribution.quantity, now)
  /\ Proceed(k, "log", inflight[k].rows, Update("resources", TRUE))
  /\ UNCHANGED <<client, routes, nextId, now, request, response, trace, served,
                 weather>>

\* await storage.logActivity({...})
LogDistribution(k) ==
  /\ inflight[k].pc = "log"
  /\ LET distribution == inflight[k].rows[1]
         log == logActivity(
                  db,
                  [type |-> "relief_distribution",
                   description |->
                     <<"Distributed relief: ", distribution.quantity,
                       OrElse(distribution, "distributedTo", "undefined")>>,
                   entityType |-> "distribution",
                   entityId |-> distribution.id,
                   performedBy |-> inflight[k].req.user,
                   location |-> OrElse(distribution, "distributedTo", "Unknown")],
                  nextId, now)
     IN  /\ log.ok
         /\ db' = log.db
         /\ nextId' = log.nextId
  /\ Proceed(k, "send", inflight[k].rows, Insert("activity_log", TRUE))
  /\ UNCHANGED <<client, routes, now, request, response, trace, served,
                 weather>>

\* res.json(distribution)
SendDistribution(k) ==
  /\ inflight[k].pc = "send"
  /\ request' = inflight[k].req
  /\ response' = [status |-> 200, body |-> inflight[k].rows[1]]
  /\ trace' = Append(inflight[k].trace, Send(200))
  /\ served' = served + 1
  /\ Proceed(k, "done", inflight[k].rows, Send(200))
  /\ UNCHANGED <<client, routes, db, nextId, now, weather>>

\* the resources in store when the two requests arrive: one without and
\* one with units distributed
Stocked ==
  LET first  == createResource(
                  [t \in Tables |-> <<>>],
                  Parsed(insertResourceSchema, ValidResource), 1, 0)
      second == createResource(
                  first.db,
                  Parsed(insertResourceSchema,
                         With(ValidResource, "distributedQuantity", 1)),
                  first.nextId, 0)
  IN  second

\* the server clock advances
Tick ==
  /\ now < MaxClock
  /\ now' = now + 1
  /\ UNCHANGED <<client, routes, db, nextId, request, response, trace, served,
                 weather, inflight>>

\* the server clock advances while alerts are listed
TickAlerts ==
  /\ now < MaxAlertClock
  /\ now' = now + 1
  /\ UNCHANGED <<client, routes, db, nextId, request, response, trace, served,
                 weather, inflight>>

\* --------------------------------------------------------- specification
\* the server has started on an empty database and has served nothing
Init ==
  /\ routes = registerRoutes
  /\ db = [t \in Tables |-> <<>>]
  /\ nextId = 1
  /\ now = 0
  /\ request = Req("", "", FALSE, "", 0, "", NoBody)
  /\ response = [status |-> 0, body |-> <<>>]
  /\ trace = <<>>
  /\ served = 0
  /\ weather = NoWeather
  /\ inflight = NoneInFlight
  /\ client = Opened("/")

Open == served < MaxRequests

\* the whole API, within one reading of the clock, over a database that
\* answers every call
Next ==
  \/ Open /\ GetAuthUser(Validation)
  \/ Open /\ GetDashboardStats(Validation)
  \/ Open /\ GetFloodZones(Validation)
  \/ Open /\ PostFloodZones(Validation)
  \/ Open /\ PatchFloodZones(Validation)
  \/ Open /\ GetPopulation(Validation)
  \/ Open /\ PostPopulation(Validation)
  \/ Open /\ PatchPopulation(Validation)
  \/ Open /\ GetResources(Validation)
  \/ Open /\ PostResources(Validation)
  \/ Open /\ PatchResources(Validation)
  \/ Open /\ GetReliefDistribution(Validation)
  \/ Open /\ PostReliefDistribution(Validation)
  \/ Open /\ GetWeatherAlerts(Validation)
  \/ Open /\ PostWeatherAlerts(Validation)
  \/ Open /\ DeleteWeatherAlerts(Validation)
  \/ Open /\ GetResponseTeams(Validation)
  \/ Open /\ PostResponseTeams(Validation)
  \/ Open /\ PatchResponseTeams(Validation)
  \/ Open /\ GetActivities(Validation)
  \/ Open /\ GetWeather(Validation)

Spec == Init /\ [][Next]_vars

\* the whole API over a database that may reject any call
NextFaults ==
  \/ Open /\ GetAuthUser(Faulty)
  \/ Open /\ GetDashboardStats(Faulty)
  \/ Open /\ GetFloodZones(Faulty)
  \/ Open /\ PostFloodZones(Faulty)
  \/ Open /\ PatchFloodZones(Faulty)
  \/ Open /\ GetPopulation(Faulty)
  \/ Open /\ PostPopulation(Faulty)
  \/ Open /\ PatchPopulation(Faulty)
  \/ Open /\ GetResources(Faulty)
  \/ Open /\ PostResources(Faulty)
  \/ Open /\ PatchResources(Faulty)
  \/ Open /\ GetReliefDistribution(Faulty)
  \/ Open /\ PostReliefDistribution(Faulty)
  \/ Open /\ GetWeatherAlerts(Faulty)
  \/ Open /\ PostWeatherAlerts(Faulty)
  \/ Open /\ DeleteWeatherAlerts(Faulty)
  \/ Open /\ GetResponseTeams(Faulty)
  \/ Open /\ PostResponseTeams(Faulty)
  \/ Open /\ PatchResponseTeams(Faulty)
  \/ Open /\ GetActivities(Faulty)
  \/ Open /\ GetWeather(Faulty)

SpecFaults == Init /\ [][NextFaults]_vars
OpenTable == served < MaxTableRequests

\* the flood-zone routes and the dashboard, as time passes
NextZones ==
  \/ Tick
  \/ OpenTable /\ GetDashboardStats(Values)
  \/ OpenTable /\ GetFloodZones(Values)
  \/ OpenTable /\ PostFloodZones(Values)
  \/ OpenTable /\ PatchFloodZones(Values)

SpecZones == Init /\ [][NextZones]_vars

\* the population routes and the dashboard, as time passes
NextPopulation ==
  \/ Tick
  \/ OpenTable /\ GetDashboardStats(Values)
  \/ OpenTable /\ GetPopulation(Values)
  \/ OpenTable /\ PostPopulation(Values)
  \/ OpenTable /\ PatchPopulation(Values)

SpecPopulation == Init /\ [][NextPopulation]_vars

\* the resource and distribution routes and the dashboard, as time passes
NextResources ==
  \/ Tick
  \/ OpenTable /\ GetDashboardStats(Values)
  \/ OpenTable /\ GetResources(Values)
  \/ OpenTable /\ PostResources(Values)
  \/ OpenTable /\ PatchResources(Values)
  \/ OpenTable /\ GetReliefDistribution(Values)
  \/ OpenTable /\ PostReliefDistribution(Values)

SpecResources == Init /\ [][NextResources]_vars

\* the response-team routes and the dashboard, as time passes
NextTeams ==
  \/ Tick
  \/ OpenTable /\ GetDashboardStats(Values)
  \/ OpenTable /\ GetResponseTeams(Values)
  \/ OpenTable /\ PostResponseTeams(Values)
  \/ OpenTable /\ PatchResponseTeams(Values)

SpecTeams == Init /\ [][NextTeams]_vars

\* the routes that record an actor on the row, each body naming a user
\* in the actor's column or not
NextActors ==
  \/ Open /\ PostPopulation(Actors)
  \/ Open /\ PatchPopulation(Actors)
  \/ Open /\ PostResources(Actors)
  \/ Open /\ PostReliefDistribution(Actors)
  \/ Open /\ PostWeatherAlerts(Actors)
  \/ Open /\ PostResponseTeams(Actors)
  \/ Open /\ PatchResponseTeams(Actors)

SpecActors == Init /\ [][NextActors]_vars

\* creations and updates of the four tables that can be updated, with
\* bodies that name the columns the server owns, as time passes
NextFrame ==
  \/ Tick
  \/ OpenTable /\ PostFloodZones(Frame)
  \/ OpenTable /\ PatchFloodZones(Frame)
  \/ OpenTable /\ PostPopulation(Frame)
  \/ OpenTable /\ PatchPopulation(Frame)
  \/ OpenTable /\ PostResources(Frame)
  \/ OpenTable /\ PatchResources(Frame)
  \/ OpenTable /\ PostResponseTeams(Frame)
  \/ OpenTable /\ PatchResponseTeams(Frame)

SpecFrame == Init /\ [][NextFrame]_vars

\* a stored alert; until is <<>> for a NULL validUntil
StoredAlert(id, active, until, created) ==
  [id |-> id, type |-> "flood_warning", severity |-> "high",
   title |-> "Red alert", message |-> "Move to higher ground",
   isActive |-> active, createdBy |-> SomeUser, createdAt |-> created]
    @@ (IF until = <<>> THEN EmptyVals ELSE "validUntil" :> until[1])

\* the weather_alerts table holds two alerts, created at times 0 and 1,
\* each active or not, with no validUntil or one that falls before or after
\* the times of the clock
StoredAlerts ==
  {<<StoredAlert(1, a, u, 0), StoredAlert(2, b, v, 1)>> :
     a \in {TRUE, FALSE}, u \in {<<>>, <<1>>, <<2>>},
     b \in {TRUE, FALSE}, v \in {<<>>, <<2>>}}

\* the server has started on a database that holds alerts
InitAlerts ==
  /\ routes = registerRoutes
  /\ \E alerts \in StoredAlerts :
       db = [t \in Tables |-> IF t = "weather_alerts" THEN alerts ELSE <<>>]
  /\ nextId = 3
  /\ now = 1
  /\ request = Req("", "", FALSE, "", 0, "", NoBody)
  /\ response = [status |-> 0, body |-> <<>>]
  /\ trace = <<>>
  /\ served = 0
  /\ weather = NoWeather
  /\ inflight = NoneInFlight
  /\ client = Opened("/")

\* the weather-alert routes, as time passes
NextAlerts ==
  \/ TickAlerts
  \/ OpenTable /\ GetWeatherAlerts(Values)
  \/ OpenTable /\ PostWeatherAlerts(Values)
  \/ OpenTable /\ DeleteWeatherAlerts(Values)

SpecAlerts == InitAlerts /\ [][NextAlerts]_vars

\* the list, create and update routes of the three tables listed by their
\* update stamp, as time passes
NextLists ==
  \/ Tick
  \/ OpenTable /\ GetFloodZones(Frame)
  \/ OpenTable /\ PostFloodZones(Frame)
  \/ OpenTable /\ PatchFloodZones(Frame)
  \/ OpenTable /\ GetResources(Frame)
  \/ OpenTable /\ PostResources(Frame)
  \/ OpenTable /\ PatchResources(Frame)
  \/ OpenTable /\ GetResponseTeams(Frame)
  \/ OpenTable /\ PostResponseTeams(Frame)
  \/ OpenTable /\ PatchResponseTeams(Frame)

SpecLists == Init /\ [][NextLists]_vars

\* creations and updates with bodies that refer to rows of other tables or
\* name the id of the row
NextKeys ==
  \/ OpenTable /\ PostFloodZones(Keys)
  \/ OpenTable /\ PatchFloodZones(Keys)
  \/ OpenTable /\ PostPopulation(Keys)
  \/ OpenTable /\ PatchPopulation(Keys)
  \/ OpenTable /\ PostResources(Keys)
  \/ OpenTable /\ PatchResources(Keys)
  \/ OpenTable /\ PostReliefDistribution(Keys)
  \/ OpenTable /\ PostResponseTeams(Keys)
  \/ OpenTable /\ PatchResponseTeams(Keys)

SpecKeys == Init /\ [][NextKeys]_vars

\* the app has been opened at some location
InitRouter ==
  /\ routes = registerRoutes
  /\ db = [t \in Tables |-> <<>>]
  /\ nextId = 1
  /\ now = 0
  /\ request = Req("", "", FALSE, "", 0, "", NoBody)
  /\ response = [status |-> 0, body |-> <<>>]
  /\ trace = <<>>
  /\ served = 0
  /\ weather = NoWeather
  /\ inflight = NoneInFlight
  /\ \E location \in Locations : client = Opened(location)

\* the client's router as the user moves about and the session changes
NextRouter ==
  \/ Navigate
  \/ AuthChanges

SpecRouter == InitRouter /\ [][NextRouter]_vars

InitConcurrent ==
  /\ routes = registerRoutes
  /\ db = Stocked.db
  /\ nextId = Stocked.nextId
  /\ now = 0
  /\ request = Req("", "", FALSE, "", 0, "", NoBody)
  /\ response = [status |-> 0, body |-> <<>>]
  /\ trace = <<>>
  /\ served = 0
  /\ weather = NoWeather
  /\ inflight = NoneInFlight
  /\ client = Opened("/")

NextConcurrent ==
  \E k \in Slots :
    \/ ReceiveDistribution(k)
    \/ InsertDistribution(k)
    \/ UpdateResourceQuantity(k)
    \/ LogDistribution(k)
    \/ SendDistribution(k)

SpecConcurrent == InitConcurrent /\ [][NextConcurrent]_vars

\* ================================================================ claims
\* a step that serves a request
Served == served' = served + 1

Rows(t) == {db[t][i] : i \in 1..Len(db[t])}

\* the calls of the trace that reach the database or the weather service
Calls == {i \in 1..Len(trace) : trace[i].op \in {"select", "insert", "update", "fetch"}}

Sends == {i \in 1..Len(trace) : trace[i].op = "send"}

\* ---------------------------------------------------------------- C1
\* C1: every route registered by registerRoutes is behind isAuthenticated,
\* and a request that does not pass it is answered 401 without the server
\* reading or writing the database or calling the weather service.
C1_UnauthenticatedNeverServed ==
  /\ \A r \in routes : "isAuthenticated" \in r.middleware
  /\ (served > 0 /\ ~request.authed) =>
       /\ response.status = 401
       /\ Calls = {}

\* an unauthenticated POST arrives at a server whose database holds a row
C1_Witness ==
  /\ ~request.authed
  /\ request.method = "POST"
  /\ response.status = 401
  /\ \E t \in Tables : db[t] # <<>>

\* ---------------------------------------------------------------- C2
\* C2: the activeZones of a dashboard response is the number of flood_zones
\* rows whose isActive is true, after any creations and PATCHes; rows whose
\* isActive is false (or NULL) are not counted.
C2_ActiveZonesCount ==
  LET active == Cardinality({i \in 1..Len(db["flood_zones"]) :
                               /\ "isActive" \in DOMAIN db["flood_zones"][i]
                               /\ db["flood_zones"][i].isActive})
  IN  /\ getDashboardStats(db).activeZones = active
      /\ (request.path = "/api/dashboard/stats" /\ response.status = 200) =>
           response.body.activeZones = active

\* the dashboard is read after a zone was switched off by a PATCH
C2_Witness ==
  /\ request.path = "/api/dashboard/stats"
  /\ response.status = 200
  /\ \E z \in Rows("flood_zones") :
       /\ "isActive" \in DOMAIN z /\ ~z.isActive
       /\ \E a \in Rows("activity_log") :
            a.type = "zone_update" /\ a.entityId = z.id
  /\ response.body.activeZones < Len(db["flood_zones"])

\* ---------------------------------------------------------------- C3
\* C3: affectedPeople is the number of affected_population rows whatever
\* their evacuationStatus or familyMembers; a successful POST /api/population
\* raises it by exactly 1 and no PATCH /api/population/:id changes it.
C3_AffectedPeopleCount ==
  [][Served =>
       LET before == getDashboardStats(db).affectedPeople
           after  == getDashboardStats(db').affectedPeople
       IN  /\ after = Cardinality(DOMAIN db'["affected_population"])
           /\ (request'.method = "POST" /\ request'.path = "/api/population"
               /\ response'.status = 200) => after = before + 1
           /\ (request'.method = "PATCH"
               /\ request'.path = "/api/population/:id") => after = before
           /\ (request'.path = "/api/dashboard/stats"
               /\ response'.status = 200) =>
                response'.body.affectedPeople = after]_vars

\* a successful PATCH has changed the familyMembers of a registered person
C3_Witness ==
  /\ request.method = "PATCH"
  /\ request.path = "/api/population/:id"
  /\ response.status = 200
  /\ \E r \in Rows("affected_population") :
       "familyMembers" \in DOMAIN r /\ r.familyMembers = 3

\* ---------------------------------------------------------------- C4
\* C4: the reliefDistributed of a dashboard response is
\* 100 * SUM(distributedQuantity) / SUM(totalQuantity) over all resources,
\* rounded to the nearest integer, and 0 when SUM(totalQuantity) is 0.
C4_ReliefPercentage ==
  (request.path = "/api/dashboard/stats" /\ response.status = 200) =>
    LET total == SumCol(db["resources"], "totalQuantity")
        distributed == SumCol(db["resources"], "distributedQuantity")
        got == response.body.reliefDistributed
    IN  /\ got # <<>>
        /\ IF total = 0 THEN got[1] = 0
           ELSE 2 * Abs(got[1] * total - 100 * distributed) <= Abs(total)

C6_RequiredKeys(path) ==
  CASE path = "/api/flood-zones" ->
         {"name", "district", "latitude", "longitude", "riskLevel", "radius"}
    [] path = "/api/population" -> {"name", "evacuationStatus"}
    [] path = "/api/resources" ->
         {"name", "type", "unit", "totalQuantity", "priority"}
    [] path = "/api/relief-distribution" -> {"resourceId", "quantity"}
    [] path = "/api/weather-alerts" -> {"type", "severity", "title", "message"}
    [] path = "/api/response-teams" -> {"name", "type", "status"}

\* C6: a POST whose body lacks a required key of its insert schema is
\* rejected: the database is left as it was (no row, no activity-log entry)
\* and the response is an error with a message.
C6_MissingRequiredFieldRejected ==
  [][(/\ Served
      /\ request'.method = "POST"
      /\ ~(C6_RequiredKeys(request'.path) \subseteq DOMAIN request'.body.vals))
     => /\ db' = db
        /\ response'.status \in {401, 500}
        /\ DOMAIN response'.body = {"message"}]_vars

\* an authenticated POST /api/resources without type was answered 500
C6_Witness ==
  /\ request.method = "POST"
  /\ request.path = "/api/resources"
  /\ request.authed
  /\ DOMAIN request.body.vals = C6_RequiredKeys(request.path) \ {"type"}
  /\ response.status = 500

\* ---------------------------------------------------------------- C7
\* the values the schema's comments enumerate for a column
C7_Enumerated(t, col, values) ==
  \A r \in Rows(t) : col \in DOMAIN r => r[col] \in values

\* C7: every stored row carries a value of the enumerated set in riskLevel,
\* evacuationStatus, priority, severity and status, a create request with
\* another value being rejected.
C7_EnumeratedFieldsEnforced ==
  /\ C7_Enumerated("flood_zones", "riskLevel", {"high", "medium", "low"})
  /\ C7_Enumerated("affected_population", "evacuationStatus",
                   {"evacuated", "sheltered", "at_risk", "safe"})
  /\ C7_Enumerated("resources", "priority", {"high", "medium", "low"})
  /\ C7_Enumerated("weather_alerts", "severity", {"high", "medium", "low"})
  /\ C7_Enumerated("response_teams", "status",
                   {"active", "standby", "unavailable"})

\* ---------------------------------------------------------------- C8
\* C8: every request gets exactly one response, sent last; when a call of
\* the handler throws, that response is 500 with a {message} body and no
\* success body is sent.
C8_OneResponsePerRequest ==
  served > 0 =>
    /\ Sends = {Len(trace)}
    /\ trace[Len(trace)].status = response.status
    /\ (\E i \in 1..Len(trace) : ~trace[i].ok) =>
         /\ response.status = 500
         /\ DOMAIN response.body = {"message"}

\* the activity logging threw after the row was inserted
C8_Witness ==
  /\ response.status = 500
  /\ \E i \in 1..Len(trace) :
       /\ trace[i] = Insert("activity_log", FALSE)
       /\ i > 1 /\ trace[i - 1].op \in {"insert", "update"} /\ trace[i - 1].ok

\* ---------------------------------------------------------------- C9
C9_EntityPaths ==
  {"/api/flood-zones", "/api/population", "/api/resources",
   "/api/relief-distribution", "/api/weather-alerts", "/api/response-teams"}

C9_Has(method, path) ==
  \E r \in routes : r.method = method /\ r.path = path

C9_Patched ==
  {"/api/flood-zones", "/api/population", "/api/resources",
   "/api/response-teams"}

\* the table whose rows the routes of a path list and create
C9_TableOf(path) ==
  CASE path \in {"/api/flood-zones", "/api/flood-zones/:id"} -> "flood_zones"
    [] path \in {"/api/population", "/api/population/:id"} ->
         "affected_population"
    [] path \in {"/api/resources", "/api/resources/:id"} -> "resources"
    [] path = "/api/relief-distribution" -> "relief_distribution"
    [] path \in {"/api/weather-alerts", "/api/weather-alerts/:id"} ->
         "weather_alerts"
    [] path \in {"/api/response-teams", "/api/response-teams/:id"} ->
         "response_teams"
    [] OTHER -> ""

\* a stored row of the table differs after the step
C9_RowChanged(t) ==
  \E i \in 1..Len(db[t]) : db'[t][i] # db[t][i]

C10_AuditTrail ==
  [][Served =>
       LET log  == db["activity_log"]
           log2 == db'["activity_log"]
           n    == Len(trace')
       IN  /\ request'.method = "GET" => log2 = log
           /\ (request'.method \in {"POST", "PATCH", "DELETE"}
               /\ response'.status = 200) =>
                /\ Len(log2) = Len(log) + 1
                /\ SubSeq(log2, 1, Len(log)) = log
                /\ log2[Len(log2)].performedBy = request'.user
                /\ log2[Len(log2)].entityId \in
                     Ids(db'[C9_TableOf(request'.path)])
                /\ n >= 3
                /\ trace'[n] = Send(200)
                /\ trace'[n - 1] = Insert("activity_log", TRUE)
                /\ trace'[n - 2].op \in {"insert", "update"}
                /\ trace'[n - 2].ok]_vars

\* --------------------------------------------------------------- C11
\* a request of the user to the route
C11_RequestBy(r, u) == Req(r.method, r.path, TRUE, u, 0, "", NoBody)

\* C11: access is role-based: some route is open to a user of one role and
\* denied to a user of another role.
C11_RoleBasedAccess ==
  \E r \in routes : \E u, v \in Users :
    /\ roleOf(u) # roleOf(v)
    /\ ~Denied(r, C11_RequestBy(r, u))
    /\ Denied(r, C11_RequestBy(r, v))

\* what holds instead: no request of a user with a session is refused,
\* whatever the user's role
C11_NoRequestRefusedByRole ==
  (served > 0 /\ request.authed) => response.status \notin {401, 403}

\* --------------------------------------------------------------- C12
\* C12: GET /api/weather/:location calls the weather service at most once,
\* and not at all when OPENWEATHER_API_KEY is not set (the answer is then
\* 500); a status of the service that is not OK gives 500; a 200 carries
\* exactly temperature, humidity, description, windSpeed and pressure, each
\* read from the body the service answered.
C12_WeatherProxy ==
  (served > 0 /\ request.path = "/api/weather/:location" /\ request.authed) =>
    LET fetches == {i \in 1..Len(trace) : trace[i].op = "fetch"}
        json == weather.upstream.json
    IN  /\ Cardinality(fetches) <= 1
        /\ ~weather.apiKey => fetches = {} /\ response.status = 500
        /\ (weather.apiKey /\ weather.upstream.status \notin 200..299) =>
             response.status = 500
        /\ response.status \in {200, 500}
        /\ response.status = 200 =>
             /\ Cardinality(fetches) = 1
             /\ DOMAIN response.body =
                  {"temperature", "humidity", "description", "windSpeed",
                   "pressure"}
             /\ response.body.temperature = json.main.temp
             /\ response.body.humidity = json.main.humidity
             /\ response.body.description = json.weather[1].description
             /\ response.body.windSpeed = json.wind.speed
             /\ response.body.pressure = json.main.pressure

\* the service reported 24 degrees and the response carries them
C12_Witness ==
  /\ request.path = "/api/weather/:location"
  /\ response.status = 200
  /\ weather.upstream.json.main.temp = 24
  /\ response.body.temperature = 24

\* --------------------------------------------------------------- C13
\* the step serves a POST /api/relief-distribution with a 200
C13_Distributed ==
  /\ Served
  /\ request'.method = "POST"
  /\ request'.path = "/api/relief-distribution"
  /\ response'.status = 200

\* the row but for the columns
C13_Except(row, cols) == Restrict(row, DOMAIN row \ cols)

C14_Recorded(id) ==
  SumCol(SelectSeq(db["relief_distribution"], LAMBDA x : x.resourceId = id),
         "quantity")

\* C14: the distributedQuantity of every resource is the sum of the
\* quantity of the relief_distribution rows of that resource.
C14_InventoryConsistent ==
  \A r \in Rows("resources") :
    /\ "distributedQuantity" \in DOMAIN r
    /\ r.distributedQuantity = C14_Recorded(r.id)

\* --------------------------------------------------------------- C15
\* C15: no resource is over-distributed: its distributedQuantity never
\* exceeds its totalQuantity.
C15_NeverOverDistributed ==
  \A r \in Rows("resources") :
    "distributedQuantity" \in DOMAIN r =>
      r.distributedQuantity <= r.totalQuantity

\* --------------------------------------------------------------- C16
\* C16: a POST, PATCH or DELETE answered 500 leaves every table as it was
\* before the request.
C16_FailureLeavesNothing ==
  [][(/\ Served
      /\ request'.method \in {"POST", "PATCH", "DELETE"}
      /\ response'.status = 500) => db' = db]_vars

\* --------------------------------------------------------------- C18
\* C18: reliefDistributed is a number from 0 to 100 in every state, the
\* state without resources included.
C18_PercentageInRange ==
  LET got == getDashboardStats(db).reliefDistributed
  IN  /\ got # <<>>
      /\ got[1] >= 0
      /\ got[1] <= 100

\* --------------------------------------------------------------- C19
\* the column of each table that records who created the row
C19_Actor(t) ==
  CASE t = "affected_population" -> "registeredBy"
    [] t = "relief_distribution" -> "distributedBy"
    [] t = "weather_alerts" -> "createdBy"
    [] t = "response_teams" -> "leadOfficer"

C19_Tables ==
  {"affected_population", "relief_distribution", "weather_alerts",
   "response_teams"}

\* a row created by the request carries the requester as its actor
C19_CreatedByRequester ==
  \A t \in C19_Tables :
    \A i \in (1..Len(db'[t])) \ (1..Len(db[t])) :
      /\ C19_Actor(t) \in DOMAIN db'[t][i]
      /\ db'[t][i][C19_Actor(t)] = request'.user

\* the actor of a stored row is what it was
C19_ActorKept ==
  \A t \in C19_Tables :
    \A i \in 1..Len(db[t]) :
      /\ C19_Actor(t) \in DOMAIN db'[t][i]
      /\ db'[t][i][C19_Actor(t)] = db[t][i][C19_Actor(t)]

\* C19: the registeredBy, distributedBy, createdBy or leadOfficer of a
\* created row is the requester, whatever the body names, and no later
\* request changes it.
C19_ActorIsRequester ==
  [][Served => C19_CreatedByRequester /\ C19_ActorKept]_vars

\* what holds of C19: the part about creation
C19_CreationRecordsRequester ==
  [][Served => C19_CreatedByRequester]_vars

\* --------------------------------------------------------------- C20
\* the message of the 404 of each PATCH route
C20_NotFound(path) ==
  CASE path = "/api/flood-zones/:id" -> "Flood zone not found"
    [] path = "/api/population/:id" -> "Person not found"
    [] path = "/api/resources/:id" -> "Resource not found"
    [] path = "/api/response-teams/:id" -> "Response team not found"

C17_Updated(id) ==
  {k \in Slots : /\ inflight[k].pc \in {"log", "send", "done"}
                 /\ inflight[k].rows[1].resourceId = id}

RECURSIVE C17_Sum(_)
\* the quantities of the requests
C17_Sum(ks) ==
  IF ks = {} THEN 0
  ELSE LET k == CHOOSE x \in ks : TRUE
       IN  inflight[k].rows[1].quantity + C17_Sum(ks \ {k})

\* C17: however the steps of two distributions interleave, the
\* distributedQuantity of a resource is its initial value plus the
\* quantities of the requests whose update has returned, and the row of
\* every request past its insert is stored: when both have succeeded for
\* one resource it is the initial value + q1 + q2 and both rows exist.
C17_NoLostDistribution ==
  /\ \A i \in 1..Len(Stocked.db["resources"]) :
       LET was == Stocked.db["resources"][i]
           is  == db["resources"][i]
       IN  /\ is.id = was.id
           /\ is.distributedQuantity
                = was.distributedQuantity + C17_Sum(C17_Updated(was.id))
  /\ \A k \in Slots :
       inflight[k].pc \in {"update", "log", "send", "done"} =>
         inflight[k].rows[1] \in Rows("relief_distribution")
  /\ Len(db["relief_distribution"])
       = Cardinality({k \in Slots :
                        inflight[k].pc \in {"update", "log", "send", "done"}})

\* both requests succeeded for the resource that had 1 unit distributed,
\* the first to insert its row being the last to write its log entry
C17_Witness ==
  /\ \A k \in Slots :
       /\ inflight[k].pc = "done"
       /\ inflight[k].rows[1].resourceId = 2
       /\ inflight[k].rows[1].quantity = k
  /\ db["resources"][2].distributedQuantity = 4
  /\ inflight[1].rows[1].id < inflight[2].rows[1].id
  /\ \E a, b \in Rows("activity_log") :
       /\ a.entityId = inflight[1].rows[1].id
       /\ b.entityId = inflight[2].rows[1].id
       /\ b.id < a.id

\* --------------------------------------------------------------- C21
\* the column updateX stamps with the server's time
C21_Stamp(t) == IF t = "flood_zones" THEN "lastUpdated" ELSE "updatedAt"

\* the columns a PATCH body names
C21_Named(body) == DOMAIN body.vals \cup body.nulls

\* rows a and b agree on column c
C21_Same(a, b, c) ==
  /\ c \in DOMAIN a <=> c \in DOMAIN b
  /\ c \in DOMAIN a => a[c] = b[c]

\* the frame of a PATCH answered 200: the row of the request's id keeps its
\* id and createdAt, is the row returned, carries the server's time in its
\* update stamp and differs from before only in the stamp and the columns
\* of keys; every other row of every entity table is as before
C21_Frame(keys) ==
  LET t == C9_TableOf(request'.path)
  IN  /\ Len(db'[t]) = Len(db[t])
      /\ \A u \in Tables \ {t, "activity_log"} : db'[u] = db[u]
      /\ \A i \in 1..Len(db[t]) :
           IF db[t][i].id = request'.id
           THEN /\ db'[t][i].id = request'.id
                /\ response'.body = db'[t][i]
                /\ C21_Same(db'[t][i], db[t][i], "createdAt")
                /\ db'[t][i][C21_Stamp(t)] = now
                /\ \A c \in Columns(t) \ (keys \cup {C21_Stamp(t)}) :
                     C21_Same(db'[t][i], db[t][i], c)
           ELSE db'[t][i] = db[t][i]

\* C21: a successful PATCH changes only the columns its body names and the
\* update stamp, which is the server's time whatever the body says; the
\* row's id and createdAt are kept, the row returned has the id of the
\* request, and no other row is modified.
C21_PatchFrame ==
  [][(Served /\ request'.method = "PATCH" /\ response'.status = 200)
     => C21_Frame(C21_Named(request'.body))]_vars

\* what does hold: the same frame for the PATCH bodies that do not name id
C21_PatchFrameUnlessRekeyed ==
  [][(/\ Served
      /\ request'.method = "PATCH"
      /\ response'.status = 200
      /\ "id" \notin C21_Named(request'.body))
     => C21_Frame(C21_Named(request'.body))]_vars

\* and a PATCH whose body names createdAt is never answered 200
C21_CreatedAtNeverPatched ==
  (request.method = "PATCH" /\ response.status = 200)
    => "createdAt" \notin C21_Named(request.body)

\* --------------------------------------------------------------- C22
\* a GET /api/weather-alerts has just been answered 200
C22_Listed ==
  /\ Served
  /\ request'.method = "GET"
  /\ request'.path = "/api/weather-alerts"
  /\ response'.status = 200

\* C22: every alert GET /api/weather-alerts returns is a stored alert with
\* isActive true and a validUntil not earlier than the time of the query,
\* so a deactivated or an expired alert is never returned; the alerts come
\* newest createdAt first.
C22_OnlyActiveUnexpiredListed ==
  [][C22_Listed =>
       LET alerts == response'.body
       IN  /\ \A i \in 1..Len(alerts) :
                /\ alerts[i] \in Rows("weather_alerts")
                /\ "isActive" \in DOMAIN alerts[i]
                /\ alerts[i].isActive = TRUE
                /\ "validUntil" \in DOMAIN alerts[i]
                /\ alerts[i].validUntil >= now
           /\ \A i, j \in 1..Len(alerts) :
                i < j => alerts[i].createdAt >= alerts[j].createdAt]_vars

\* a GET lists nothing from a table that holds an alert deactivated by a
\* DELETE whose validUntil has not passed and an active alert whose
\* validUntil has passed
C22_Witness ==
  /\ request.method = "GET"
  /\ request.path = "/api/weather-alerts"
  /\ response.status = 200
  /\ response.body = <<>>
  /\ \E r \in Rows("weather_alerts") :
       r.id = 1 /\ r.isActive = TRUE /\ "validUntil" \in DOMAIN r
         /\ r.validUntil < now
  /\ \E r \in Rows("weather_alerts") :
       r.id = 2 /\ r.isActive = FALSE /\ "validUntil" \in DOMAIN r
         /\ r.validUntil >= now
  /\ \E a \in Rows("activity_log") :
       a.type = "alert_deactivation" /\ a.entityId = 2

\* --------------------------------------------------------------- C23
\* the stored alerts that a POST /api/weather-alerts created
C23_Created ==
  {r \in Rows("weather_alerts") :
     \E a \in Rows("activity_log") :
       a.type = "alert_creation" /\ a.entityId = r.id}

\* C23: an alert created with isActive true is listed by GET
\* /api/weather-alerts from its creation until it is deactivated or its
\* validUntil passes; one created without validUntil is listed until it is
\* deactivated.
C23_CreatedActiveListed ==
  [][C22_Listed =>
       \A r \in C23_Created :
         (/\ "isActive" \in DOMAIN r
          /\ r.isActive = TRUE
          /\ "validUntil" \in DOMAIN r => r.validUntil >= now)
           => \E i \in 1..Len(response'.body) : response'.body[i] = r]_vars

\* what does hold: no alert that a POST created has a validUntil, and none
\* is ever listed
C23_CreatedNeverListed ==
  /\ [](\A r \in C23_Created : "validUntil" \notin DOMAIN r)
  /\ [][C22_Listed =>
          \A i \in 1..Len(response'.body) :
            response'.body[i] \notin C23_Created]_vars

\* --------------------------------------------------------------- C24
\* a DELETE /api/weather-alerts/:id has just been answered 200
C24_Deactivated ==
  /\ Served
  /\ request'.method = "DELETE"
  /\ response'.status = 200

\* C24: deactivation is non-destructive and permanent. After a successful
\* DELETE the alert of the request's id is still stored, with isActive
\* false and every other column as before, and no other alert has changed;
\* an alert with isActive false stays stored as it is whatever request
\* follows and is in no later answer of GET /api/weather-alerts; a DELETE
\* of an alert that is already inactive leaves weather_alerts unchanged.
C24_DeactivationPermanent ==
  [][LET alerts == db["weather_alerts"]
         after  == db'["weather_alerts"]
     IN  /\ Len(after) >= Len(alerts)
         /\ C24_Deactivated =>
              \A i \in 1..Len(alerts) :
                after[i] = IF alerts[i].id = request'.id
                           THEN [alerts[i] EXCEPT !.isActive = FALSE]
                           ELSE alerts[i]
         /\ \A i \in 1..Len(alerts) :
              alerts[i].isActive = FALSE =>
                /\ after[i] = alerts[i]
                /\ C22_Listed =>
                     \A k \in 1..Len(response'.body) :
                       response'.body[k].id # alerts[i].id]_vars

\* an alert that would be listed was deactivated by a DELETE, a second
\* DELETE of it has just been answered 200, and the alert is still stored
C24_Witness ==
  /\ request.method = "DELETE"
  /\ response.status = 200
  /\ \E r \in Rows("weather_alerts") :
       /\ r.id = request.id
       /\ r.isActive = FALSE
       /\ "validUntil" \in DOMAIN r
       /\ r.validUntil >= now
  /\ Cardinality({a \in Rows("activity_log") :
                    a.type = "alert_deactivation"
                      /\ a.entityId = request.id}) = 2

\* --------------------------------------------------------------- C25
\* the table that holds the rows of the kind an entityType names
C25_TableOfKind(kind) ==
  CASE kind = "flood_zone" -> "flood_zones"
    [] kind = "population" -> "affected_population"
    [] kind = "resource" -> "resources"
    [] kind = "distribution" -> "relief_distribution"
    [] kind = "alert" -> "weather_alerts"
    [] kind = "team" -> "response_teams"
    [] OTHER -> ""

\* the entries a step has appended to activity_log
C25_Written ==
  {db'["activity_log"][i] :
     i \in (Len(db["activity_log"]) + 1)..Len(db'["activity_log"])}

\* C25: every activity_log entry a handler writes has an entityType among
\* flood_zone, population, resource, distribution, alert and team and an
\* entityId that is the id of a stored row of that kind; a PATCH or DELETE
\* whose id matches no row writes no entry.
C25_EntriesNameExistingRows ==
  [][/\ \A a \in C25_Written :
          /\ C25_TableOfKind(a.entityType) # ""
          /\ a.entityId \in Ids(db'[C25_TableOfKind(a.entityType)])
     /\ (/\ Served
         /\ request'.method \in {"PATCH", "DELETE"}
         /\ request'.id \notin Ids(db[C9_TableOf(request'.path)]))
          => C25_Written = {}]_vars

\* what does hold: the entries written by every request but a DELETE
C25_EntriesOfCreatesAndUpdates ==
  [][request'.method # "DELETE" =>
       \A a \in C25_Written :
         /\ C25_TableOfKind(a.entityType) # ""
         /\ a.entityId \in Ids(db'[C25_TableOfKind(a.entityType)])]_vars

\* --------------------------------------------------------------- C26
\* an authenticated GET /api/activities has just been answered
C26_Asked ==
  /\ Served
  /\ request'.method = "GET"
  /\ request'.path = "/api/activities"
  /\ request'.authed

\* the limit the claim gives a query string: 20 when it is absent, not a
\* number or 0
C26_Limit(query) ==
  CASE query \in {"", "abc", "0"} -> 20
    [] query = "1" -> 1
    [] query = "2" -> 2
    [] query = "-1" -> 0 - 1

\* the answer holds the n most recent entries, newest createdAt first
C26_MostRecent(body, n) ==
  LET log == db["activity_log"]
  IN  /\ Len(body) = (IF n < Len(log) THEN n ELSE Len(log))
      /\ \A i \in 1..Len(body) : body[i] \in Rows("activity_log")
      /\ \A i, j \in 1..Len(body) : i # j => body[i] # body[j]
      /\ \A i, j \in 1..Len(body) :
           i < j => body[i].createdAt >= body[j].createdAt
      /\ \A a \in Rows("activity_log") :
           (\A i \in 1..Len(body) : body[i] # a) =>
             \A i \in 1..Len(body) : body[i].createdAt >= a.createdAt

\* C26: GET /api/activities succeeds for every limit a client can send and
\* returns at most limit entries, the most recent ones, newest createdAt
\* first; the limit is 20 when absent, not a number or 0.
C26_ActivitiesLimited ==
  [][C26_Asked =>
       /\ response'.status = 200
       /\ C26_MostRecent(response'.body, C26_Limit(request'.query))]_vars

\* what does hold: the same for the limits that are not negative
C26_ActivitiesLimitedUnlessNegative ==
  [][(C26_Asked /\ C26_Limit(request'.query) >= 0) =>
       /\ response'.status = 200
       /\ C26_MostRecent(response'.body, C26_Limit(request'.query))]_vars

\* --------------------------------------------------------------- C27
\* the tables the claim names
C27_Tables == {"flood_zones", "resources", "response_teams"}

\* the lists the GET of a table may answer on database d
C27_Lists(t, d) ==
  CASE t = "flood_zones" -> getFloodZones(d)
    [] t = "resources" -> getResources(d)
    [] t = "response_teams" -> getResponseTeams(d)

\* a create or a PATCH of a row of one of the tables has just succeeded
C27_Changed ==
  /\ Served
  /\ request'.method \in {"POST", "PATCH"}
  /\ response'.status = 200
  /\ C9_TableOf(request'.path) \in C27_Tables

\* a list of one of the tables has just been answered
C27_Listed ==
  /\ Served
  /\ request'.method = "GET"
  /\ response'.status = 200
  /\ C9_TableOf(request'.path) \in C27_Tables

\* the list holds every row of the table once, latest update stamp first
C27_Ordered(list, t) ==
  /\ Len(list) = Len(db[t])
  /\ \A r \in Rows(t) : \E i \in 1..Len(list) : list[i] = r
  /\ \A i, j \in 1..Len(list) :
       i < j => list[i][C21_Stamp(t)] >= list[j][C21_Stamp(t)]

\* C27 as stated: the lists of flood zones, resources and response teams
\* come latest update stamp first, so right after a successful create or
\* PATCH the row created or changed is the first element of the list.
C27_ChangedRowFirst ==
  [][/\ C27_Listed => C27_Ordered(response'.body, C9_TableOf(request'.path))
     /\ C27_Changed =>
          \A list \in C27_Lists(C9_TableOf(request'.path), db') :
            list[1] = response'.body]_vars

\* C27 as amended: the lists come latest update stamp first; right after a
\* successful create or PATCH the row created or changed carries the
\* server's time, the latest stamp of its table, and is the first element
\* of the list when no other row carries the same stamp; rows with equal
\* stamps come in either order.
C27_ChangedRowFirstUnlessTied ==
  [][/\ C27_Listed => C27_Ordered(response'.body, C9_TableOf(request'.path))
     /\ C27_Changed =>
          LET t     == C9_TableOf(request'.path)
              stamp == C21_Stamp(t)
              row   == response'.body
              tied  == {i \in 1..Len(db'[t]) :
                          db'[t][i] # row /\ db'[t][i][stamp] = now}
          IN  /\ row[stamp] = now
              /\ \A i \in 1..Len(db'[t]) : db'[t][i][stamp] <= now
              /\ \E list \in C27_Lists(t, db') : list[1] = row
              /\ tied = {} =>
                   \A list \in C27_Lists(t, db') : list[1] = row
              /\ \A i \in tied :
                   \E list \in C27_Lists(t, db') : list[1] = db'[t][i]]_vars

\* a PATCH has changed the older of two zones after the clock advanced
C27_Witness ==
  /\ request.method = "PATCH"
  /\ request.path = "/api/flood-zones/:id"
  /\ response.status = 200
  /\ Len(db["flood_zones"]) = 2
  /\ db["flood_zones"][1] = response.body
  /\ response.body.lastUpdated = now
  /\ db["flood_zones"][2].lastUpdated < now

\* --------------------------------------------------------------- C28
\* the foreign keys of the claim: table, column, table referred to
C28_Keys ==
  {<<"relief_distribution", "resourceId", "resources">>,
   <<"relief_distribution", "floodZoneId", "flood_zones">>,
   <<"affected_population", "floodZoneId", "flood_zones">>,
   <<"response_teams", "assignedZone", "flood_zones">>}

\* the ids of table target that some row refers to
C28_ReferredTo(target) ==
  UNION {{r[k[2]] : r \in {x \in Rows(k[1]) : k[2] \in DOMAIN x}} :
           k \in {j \in C28_Keys : j[3] = target}}

\* every non-null foreign key names a stored row
C28_KeysHold ==
  \A k \in C28_Keys : \A r \in Rows(k[1]) :
    k[2] \in DOMAIN r => r[k[2]] \in Ids(db[k[3]])

\* a POST has just been answered whose body names, in a foreign key, the id
\* of no stored row
C28_DanglingCreate ==
  /\ Served
  /\ request'.method = "POST"
  /\ request'.authed
  /\ \E k \in C28_Keys :
       /\ C9_TableOf(request'.path) = k[1]
       /\ k[2] \in DOMAIN request'.body.vals
       /\ request'.body.vals[k[2]] \notin Ids(db[k[3]])

\* C28: the foreign keys hold in every reachable state: the resourceId of
\* a distribution names a stored resource, and a non-null floodZoneId (of
\* a person or a distribution) or assignedZone (of a team) names a stored
\* flood zone; a create that names a resource or a zone that does not
\* exist is answered with an error and stores nothing; no request removes
\* or re-keys a row that is referred to.
C28_ForeignKeysHold ==
  /\ [](/\ C28_KeysHold
        /\ \A r \in Rows("relief_distribution") : "resourceId" \in DOMAIN r)
  /\ [][/\ C28_DanglingCreate => response'.status >= 400 /\ db' = db
        /\ \A t \in {"resources", "flood_zones"} :
             \A i \in 1..Len(db[t]) :
               db[t][i].id \in C28_ReferredTo(t) =>
                 Len(db'[t]) >= i /\ db'[t][i].id = db[t][i].id]_vars

\* a PATCH that names the id of a flood zone a person, a distribution or a
\* team refers to has been refused, and the zone is stored under its id
C28_Witness ==
  /\ request.method = "PATCH"
  /\ request.path = "/api/flood-zones/:id"
  /\ "id" \in DOMAIN request.body.vals
  /\ request.body.vals.id # request.id
  /\ request.id \in C28_ReferredTo("flood_zones")
  /\ request.id \in Ids(db["flood_zones"])
  /\ response.status = 500

\* --------------------------------------------------------------- C29
\* the pages behind the sign-in
C29_Protected ==
  {"Dashboard", "FloodMapping", "Resources", "Population", "Analytics"}

\* the components on screen
C29_OnScreen == {client.screen[i] : i \in 1..Len(client.screen)}

\* C29: the client's router renders a protected page (Dashboard,
\* FloodMapping, Resources, Population, Analytics) only when useAuth
\* reports isAuthenticated true and isLoading false; while isLoading it
\* renders the spinner alone; when not loading and not authenticated it
\* renders Landing at "/" and NotFound at every other path.
C29_ProtectedPagesNeedSession ==
  /\ C29_OnScreen \cap C29_Protected # {} =>
       client.auth.isAuthenticated /\ ~client.auth.isLoading
  /\ client.auth.isLoading => client.screen = <<"Spinner">>
  /\ (~client.auth.isLoading /\ ~client.auth.isAuthenticated) =>
       client.screen = IF client.location = "/" THEN <<"Landing">>
                       ELSE <<"NotFound">>

\* a signed-in user was on the Resources page when the session ended: the
\* router now shows NotFound there
C29_Witness ==
  /\ client.location = "/resources"
  /\ client.history # <<>>
  /\ ~client.auth.isAuthenticated
  /\ ~client.auth.isLoading
  /\ client.screen = <<"NotFound">>

====
